---- MODULE Spec2Model ----
(***************************************************************************)
(* A state-machine model of rollup's Graph coordinator (src/Graph.ts):     *)
(* module loading into the shared resolved-id table, linking and execution *)
(* ordering, statement inclusion (tree-shaking) and chunk generation.      *)
(***************************************************************************)
EXTENDS Integers, Sequences, FiniteSets, TLC

\* ------------------------------------------------------------------ bounds
NumModules == 3
MaxEdges == 3
MaxRefs == 2
MaxCycleEdges == 4
MaxExpiry == 2

Modules == 1..NumModules
Externals == {NumModules + 1}
Ids == Modules \cup Externals
\* a module is modelled with two statements: 1, its exported declaration,
\* and 2, a top-level statement
StmtIdx == 1..2
Stmts == Modules \X StmtIdx
AliasSeq == <<"a", "b">>
Aliases == {AliasSeq[i] : i \in DOMAIN AliasSeq}
NoAlias == "-"
Tasks == {"entry"} \cup Aliases
\* the plugin cache: plugin names and, per plugin, the keys it uses
CacheNames == {"p", "q"}
CacheEntries == {<<"p", "x">>, <<"p", "y">>, <<"q", "x">>}

\* BuildPhase (utils/buildPhase), compared by its enum order
LOAD_AND_PARSE == 0
ANALYSE == 1
GENERATE == 2

VARIABLES
    options,                  \* NormalizedInputOptions handed to the constructor
    files,                    \* what resolving, loading and parsing yields per id
    phase,                    \* Graph.phase
    pc,                       \* position of build()
    error,                    \* the fatal error build() was rejected with
    errorInfo,                \* the module and aliases a manual chunk error names
    modulesById,              \* Graph.modulesById: records in insertion order
    created,                  \* per id, the number of records constructed
    pending,                  \* per root set, resolved ids waiting to be fetched
    failedTasks,              \* the root sets whose load was rejected
    manualChunksPc,           \* position of addManualChunks
    entryModules,             \* Graph.entryModules
    implicitEntryModules,     \* Graph.implicitEntryModules
    manualChunkAliasByEntry,  \* the alias map addModuleToManualChunk writes
    manualChunkAliasByModule, \* Graph.manualChunkAliasByModule
    manualChunkModulesByAlias, \* Graph.manualChunkModulesByAlias
    manualChunkCalls,         \* the invocations of the manualChunks callback
    modules,                  \* Graph.modules
    externalModules,          \* Graph.externalModules
    cyclePaths,               \* the CIRCULAR_DEPENDENCY warnings sent to onwarn
    needsTreeshakingPass,     \* Graph.needsTreeshakingPass
    treeshakingPass,          \* the pass counter of includeStatements
    isExecuted,               \* the modules whose isExecuted flag is set
    included,                 \* the statements whose included flag is set
    chunks,                   \* the chunks of the last generateChunks call
    pluginCache,              \* Graph.pluginCache: groups, keys and access counters
    cacheSnapshot,            \* what the last getCache call returned
    buildsSinceAccess,        \* per cache entry, the Graphs constructed since its last access
    importers,                \* per id, the importers array of its record
    dynamicImporters,         \* per id, the dynamicImporters array of its record
    moduleInfo,               \* the outcome of the last getModuleInfo call
    outputConfig,             \* the output config handed to normalizeOutputOptions
    outputOptions             \* what normalizeOutputOptions returned or threw

vars == <<options, files, phase, pc, error, errorInfo, modulesById, created, pending,
          failedTasks, manualChunksPc, manualChunkAliasByEntry,
          entryModules, implicitEntryModules,
          manualChunkAliasByModule, manualChunkModulesByAlias, manualChunkCalls, modules, externalModules, cyclePaths,
          needsTreeshakingPass, treeshakingPass, isExecuted, included, chunks,
          pluginCache, cacheSnapshot, buildsSinceAccess,
          importers, dynamicImporters, moduleInfo, outputConfig, outputOptions>>

inputVars == <<options, files>>
cacheVars == <<pluginCache, cacheSnapshot, buildsSinceAccess>>
infoVars == <<importers, dynamicImporters, moduleInfo>>
outputVars == <<outputConfig, outputOptions>>
loadVars == <<modulesById, created, pending, failedTasks, manualChunksPc>>
graphVars == <<entryModules, implicitEntryModules, manualChunkAliasByEntry,
               manualChunkAliasByModule,
               manualChunkModulesByAlias, manualChunkCalls, modules, externalModules,
               cyclePaths>>
inclVars == <<needsTreeshakingPass, treeshakingPass, isExecuted, included>>

\* ----------------------------------------------------------------- helpers
Range(s) == {s[i] : i \in DOMAIN s}

RECURSIVE SortedSeq(_)
SortedSeq(S) ==
    IF S = {} THEN <<>>
    ELSE LET m == CHOOSE x \in S : \A y \in S : x <= y
         IN  <<m>> \o SortedSeq(S \ {m})

RECURSIVE Dedup(_)
Dedup(s) ==
    IF s = <<>> THEN <<>>
    ELSE LET r == Dedup(SubSeq(s, 1, Len(s) - 1))
         IN  IF s[Len(s)] \in Range(r) THEN r ELSE Append(r, s[Len(s)])

SelectIn(s, S) == SelectSeq(s, LAMBDA x : x \in S)

IndexOf(s, x) == CHOOSE i \in DOMAIN s : s[i] = x

ModuleOf(s) == s[1]
StmtsOf(m) == {s \in Stmts : ModuleOf(s) = m}
StmtSeq(m) == [k \in StmtIdx |-> <<m, k>>]
RefsOf(s) == {r[2] : r \in {x \in files.refs : x[1] = s}}

RECURSIVE SubsetsUpTo(_, _)
SubsetsUpTo(S, k) ==
    IF k = 0 THEN {{}}
    ELSE LET P == SubsetsUpTo(S, k - 1)
         IN  P \cup {T \cup {x} : T \in P, x \in S}

\* ------------------------------------------------------------------ inputs
\* options.manualChunks: absent, an object {alias: [ids]} or a callback
NoManualChunks ==
    [kind |-> "none", lists |-> [a \in Aliases |-> {}],
     fn |-> [m \in Modules |-> NoAlias]]
ManualChunkLists(l) ==
    [kind |-> "object", lists |-> l, fn |-> [m \in Modules |-> NoAlias]]
ManualChunkFunction(f) ==
    [kind |-> "function", lists |-> [a \in Aliases |-> {}], fn |-> f]

\* mode: "preserve" (preserveModules), "inline" (inlineDynamicImports), "auto"
MkOptions(input, treeshake, mode, mc, implicit) ==
    [input |-> input, treeshake |-> treeshake,
     preserveModules |-> (mode = "preserve"),
     inlineDynamicImports |-> (mode = "inline"),
     manualChunks |-> mc, implicitChunks |-> implicit,
     experimentalCacheExpiry |-> MaxExpiry]

ImportsOfEdges(E) == [m \in Modules |-> {e[2] : e \in {x \in E : x[1] = m}}]
NoImports == [m \in Modules |-> {}]

MkFiles(imports, dynamicImports, hasEffects, refs, exports, sideEffects, noSignature) ==
    [imports |-> imports, dynamicImports |-> dynamicImports,
     hasEffects |-> hasEffects, refs |-> refs, exports |-> exports,
     moduleSideEffects |-> sideEffects, preserveSignatureFalse |-> noSignature,
     failing |-> {}, facades |-> {}]

DeclOf(m) == <<m, 1>>
Decls == {DeclOf(m) : m \in Modules}
Tops == Stmts \ Decls

ModulePairs == {e \in Modules \X Modules : e[1] # e[2]}
EdgeSets == SubsetsUpTo(ModulePairs, MaxEdges)
RefPairs == {r \in Stmts \X Decls : r[1] # r[2]}
RefSets == SubsetsUpTo(RefPairs, MaxRefs)
EdgesOfRefs(R) == {<<ModuleOf(r[1]), ModuleOf(r[2])>> : r \in R} \cap ModulePairs

\* graph shapes: every static import graph of at most MaxEdges edges, every
\* module one side-effect statement
GraphScenarios ==
    {[options |-> MkOptions(input, ts, mode, NoManualChunks, {}),
      files |-> MkFiles(ImportsOfEdges(E), NoImports, Tops, {}, Decls, Modules, {})] :
        input \in {<<1>>, <<1, 2>>, <<2, 1>>}, ts \in BOOLEAN,
        mode \in {"preserve", "inline", "auto"}, E \in EdgeSets}

\* statement graphs: one entry, at most MaxRefs references between
\* statements and the static imports they need, at most one side-effect
\* statement
InclusionScenarios ==
    {[options |-> MkOptions(<<1>>, TRUE, "auto", NoManualChunks, {}),
      files |-> MkFiles(ImportsOfEdges(EdgesOfRefs(R)), NoImports, H, R, Decls,
                        pure, noSig)] :
        R \in RefSets, H \in SubsetsUpTo(Tops, 1), pure \in {Modules, {}},
        noSig \in {{}, {1}}}
    \cup
    \* an implicitly loaded chunk whose export references its dependant,
    \* which the entry references (and so imports) or not
    {[options |-> MkOptions(<<1>>, TRUE, "auto", NoManualChunks,
                            {[id |-> NumModules, after |-> {2}]}),
      files |-> MkFiles(ImportsOfEdges(EdgesOfRefs(R)), NoImports, {<<1, 2>>}, R,
                        Decls, Modules, {})] :
        R \in SUBSET {<<DeclOf(NumModules), DeclOf(2)>>, <<<<1, 2>>, DeclOf(2)>>}}

\* import graphs dense enough to hold two cycles that share modules: every
\* static import graph of at most MaxCycleEdges edges
OrderScenarios ==
    {[options |-> MkOptions(input, TRUE, "auto", NoManualChunks, {}),
      files |-> MkFiles(ImportsOfEdges(E), NoImports, Tops, {}, Decls, Modules, {})] :
        input \in {<<1>>, <<2, 1>>}, E \in SubsetsUpTo(ModulePairs, MaxCycleEdges)}

\* chunking: one or two entries, preserve-modules or automatic chunking with
\* a manual chunk list, modules that all have a side effect, or all but the
\* first entry, which then has nothing to include
ChunkScenarios ==
    {[options |-> MkOptions(input, TRUE, IF la = {0} THEN "preserve" ELSE "auto",
                            IF la = {0} THEN NoManualChunks
                            ELSE ManualChunkLists([x \in Aliases |->
                                     IF x = "a" THEN la ELSE {}]), {}),
      files |-> MkFiles(ImportsOfEdges(E), NoImports, H, {}, Decls, Modules,
                        IF H = Tops THEN {} ELSE Modules)] :
        input \in {<<1>>, <<1, 2>>},
        la \in {{0}} \cup SubsetsUpTo(Modules, 1),
        E \in SubsetsUpTo(ModulePairs, MaxEdges - 1),
        H \in {Tops, Tops \ {<<1, 2>>}}}
    \cup
    \* two entries that import the last module, the first of which imports
    \* the second as well
    {[options |-> MkOptions(<<1, 2>>, TRUE, "auto", NoManualChunks, {}),
      files |-> MkFiles(ImportsOfEdges({<<1, 2>>, <<1, NumModules>>,
                                        <<2, NumModules>>}),
                        NoImports, Tops, {}, Decls, Modules, {})]}

\* builds for the cache: one entry that may import the second module, a
\* manual chunk list that may name a module, every expiry threshold
CacheScenarios ==
    {[options |-> [MkOptions(<<1>>, TRUE, "auto",
                             ManualChunkLists([x \in Aliases |->
                                 IF x = "a" THEN la ELSE {}]), {})
                       EXCEPT !.experimentalCacheExpiry = n],
      files |-> MkFiles(ImportsOfEdges(E), NoImports, Tops, {}, Decls, Modules, {})] :
        la \in SubsetsUpTo({2}, 1), E \in SubsetsUpTo({<<1, 2>>}, 1),
        n \in 1..MaxExpiry}

\* builds for module information: two entries given in either order that
\* may import the third module statically or dynamically, and the first of
\* which may import the external module
InfoScenarios ==
    {[options |-> MkOptions(input, TRUE, "auto", NoManualChunks, {}),
      files |-> MkFiles([ImportsOfEdges(E) EXCEPT ![1] = @ \cup X],
                        ImportsOfEdges(D), Tops, {}, Decls, Modules, {})] :
        input \in {<<1, 2>>, <<2, 1>>},
        E \in SUBSET {<<1, 3>>, <<2, 3>>}, D \in SUBSET {<<1, 3>>, <<2, 3>>},
        X \in {{}, Externals}}

\* manual chunks whose loads may fail: two lists, of which the first may
\* name a module that cannot be loaded, or a module that imports one; and a
\* manual chunk callback over a graph with an external module
ManualScenarios ==
    {[options |-> MkOptions(<<1>>, TRUE, "auto",
                            ManualChunkLists([x \in Aliases |->
                                IF x = "a" THEN la ELSE lb]), {}),
      files |-> [MkFiles(ImportsOfEdges(E), NoImports, Tops, {}, Decls, Modules, {})
                     EXCEPT !.failing = F]] :
        la \in SubsetsUpTo({2, 3}, 2), lb \in {{}, {2}, {3}},
        E \in SUBSET {<<1, 2>>, <<2, 3>>}, F \in {{}, {3}}}
    \cup
    {[options |-> MkOptions(input, TRUE, "auto", ManualChunkFunction(f), {}),
      files |-> MkFiles([ImportsOfEdges(E) EXCEPT ![2] = @ \cup X],
                        NoImports, Tops, {}, Decls, Modules, {})] :
        input \in {<<1>>, <<1, 2>>},
        f \in {[m \in Modules |-> IF m \in S THEN "a" ELSE NoAlias] : S \in SUBSET {1, 3}},
        E \in SUBSET {<<1, 2>>, <<2, 3>>}, X \in {{}, Externals}}

\* the three chunking modes over tree-shaken graphs: one or two entries, a
\* dynamic import of the last module by the first or the second, modules
\* that all have a side effect, of which only the first has one, or none
\* (and then may be flagged free of side effects), and entries that keep
\* their exports or not and, when they keep them, need a facade
ModeScenarios ==
    {[options |-> MkOptions(input, TRUE, mode, NoManualChunks, {}),
      files |-> [MkFiles(ImportsOfEdges(E), ImportsOfEdges(D), he[1], {}, Decls,
                         he[2], noSig)
                     EXCEPT !.facades = IF noSig = {} THEN Modules ELSE {}]] :
        input \in {<<1>>, <<1, 2>>}, mode \in {"preserve", "inline", "auto"},
        E \in SubsetsUpTo(ModulePairs, MaxEdges - 1),
        D \in {{}, {<<1, NumModules>>}, {<<2, NumModules>>}},
        he \in {<<Tops, Modules>>, <<{<<1, 2>>}, Modules>>, <<{<<1, 2>>}, {1}>>,
                <<{}, {}>>},
        noSig \in {{}, Modules}}

\* implicitly loaded chunks: a plugin emits the last module as a chunk to be
\* loaded after a dependant
ImplicitScenarios ==
    {[options |-> MkOptions(<<1>>, ts, "preserve", NoManualChunks,
                            {[id |-> NumModules, after |-> {d}]}),
      files |-> MkFiles(ImportsOfEdges(E), NoImports, H, {}, Decls, Modules, noSig)] :
        ts \in BOOLEAN, d \in Modules \ {NumModules},
        E \in SubsetsUpTo(ModulePairs, MaxEdges - 1), H \in {Tops, {}},
        noSig \in {{}, Modules}}

\* manual chunk lists that share modules with the entries and each other
LoadScenarios ==
    {[options |-> MkOptions(input, TRUE, "auto",
                            ManualChunkLists([x \in Aliases |->
                                IF x = "a" THEN la ELSE {NumModules}]), {}),
      files |-> MkFiles([ImportsOfEdges(E) EXCEPT ![2] = @ \cup Externals],
                        NoImports, Tops, {}, Decls, Modules, {})] :
        input \in {<<1>>, <<1, 1>>}, la \in SubsetsUpTo(Modules, 1),
        E \in SubsetsUpTo(ModulePairs, MaxEdges - 1)}

\* a few builds that exercise the features the shape families leave alone:
\* manual chunk lists sharing modules with the entries, a manual chunk
\* callback that names two aliases, an external dependency, a dynamic
\* import, an implicit chunk, entry modules that need a facade, no entry at
\* all, without and with manual chunk lists
GenericScenarios ==
    LET chain == ImportsOfEdges({<<1, 2>>, <<2, 3>>})
        ext == [chain EXCEPT ![2] = @ \cup Externals]
        lists == [a \in Aliases |-> IF a = "a" THEN {2} ELSE {3}]
        clash == [a \in Aliases |-> {3}]
        fnA == [m \in Modules |-> IF m = 3 THEN "a" ELSE IF m = 2 THEN "b" ELSE NoAlias]
        dyn == [m \in Modules |-> IF m = 1 THEN {3} ELSE {}]
        body(imp, d) == MkFiles(imp, d, Tops, {}, Decls, Modules, {})
    IN  {[options |-> MkOptions(<<1>>, TRUE, "auto", ManualChunkLists(lists), {}),
          files |-> [body(ext, NoImports) EXCEPT !.facades = Modules]],
         [options |-> MkOptions(<<1, 2>>, TRUE, "auto", ManualChunkLists(clash), {}),
          files |-> body(chain, NoImports)],
         [options |-> MkOptions(<<1>>, FALSE, "auto", ManualChunkFunction(fnA), {}),
          files |-> body(ext, dyn)],
         [options |-> MkOptions(<<1>>, TRUE, "preserve", NoManualChunks,
                                {[id |-> 3, after |-> {2}]}),
          files |-> [body(ImportsOfEdges({<<1, 2>>}), dyn) EXCEPT !.facades = Modules]],
         [options |-> MkOptions(<<>>, TRUE, "inline", NoManualChunks, {}),
          files |-> body(chain, NoImports)],
         [options |-> MkOptions(<<>>, TRUE, "auto", ManualChunkLists(lists), {}),
          files |-> body(ext, NoImports)]}

\* input options for normalizeOutputOptions: every combination of
\* inlineDynamicImports and preserveModules, without manual chunks, with
\* an empty object, with lists and with a callback
ManualChunksValues ==
    {NoManualChunks,
     ManualChunkLists([a \in Aliases |-> {}]),
     ManualChunkLists([a \in Aliases |-> IF a = "a" THEN {NumModules} ELSE {}]),
     ManualChunkFunction([m \in Modules |-> IF m = 1 THEN "b" ELSE NoAlias])}
OutputScenarios ==
    {[options |-> [MkOptions(<<1>>, TRUE, "auto", mc, {})
                       EXCEPT !.inlineDynamicImports = inline,
                              !.preserveModules = preserve],
      files |-> MkFiles(NoImports, NoImports, Tops, {}, Decls, Modules, {})] :
        mc \in ManualChunksValues, inline \in BOOLEAN, preserve \in BOOLEAN}

\* ------------------------------------------------------------- constructor
\* a plugin cache {name: {key: [counter, value]}}: the names and keys it
\* holds and the counter of each key
EmptyCache ==
    [groups |-> {}, keys |-> {}, ctr |-> [e \in CacheEntries |-> 0]]
NoSnapshot == [taken |-> FALSE, modules |-> <<>>, plugins |-> EmptyCache]
\* no getModuleInfo call yet
NoInfo ==
    [called |-> FALSE, err |-> "none", id |-> 0,
     dynamicallyImportedIds |-> <<>>, dynamicImporters |-> <<>>,
     hasModuleSideEffects |-> FALSE,
     implicitlyLoadedAfterOneOf |-> <<>>, implicitlyLoadedBefore |-> <<>>,
     importedIds |-> <<>>, importers |-> <<>>,
     isEntry |-> FALSE, isExternal |-> FALSE]

\* an absent option, and the output config that sets no option
Undefined == "undefined"
MkOutputConfig(mc, file, dir, format, exports) ==
    [manualChunks |-> mc, file |-> file, dir |-> dir, format |-> format,
     exports |-> exports]
NoOutputConfig ==
    MkOutputConfig(NoManualChunks, Undefined, Undefined, Undefined, Undefined)
NotNormalized ==
    [called |-> FALSE, code |-> "none", option |-> "none", options |-> NoOutputConfig]

\* output configs: every manualChunks value with and without file, dir, a
\* format and an exports value, known or unknown
OutputConfigs ==
    {MkOutputConfig(mc, file, dir, format, exports) :
        mc \in ManualChunksValues, file \in {Undefined, "bundle.js"},
        dir \in {Undefined, "dist"},
        format \in {Undefined, "esm", "commonjs", "iife", "bogus"},
        exports \in {Undefined, "", "named", "bogus"}}

\* Graph's field initialisers and constructor (no cache is seeded), for
\* the builds of a family and the output configs still to be normalised
InitWith(scenarios, configs) ==
    /\ \E sc \in scenarios : options = sc.options /\ files = sc.files
    /\ outputConfig \in configs
    /\ outputOptions = NotNormalized
    /\ phase = LOAD_AND_PARSE
    /\ pc = "idle"
    /\ error = "none"
    /\ errorInfo = <<>>
    /\ modulesById = <<>>
    /\ created = [i \in Ids |-> 0]
    /\ pending = [t \in Tasks |-> {}]
    /\ failedTasks = {}
    /\ manualChunksPc = "none"
    /\ entryModules = <<>>
    /\ implicitEntryModules = <<>>
    /\ manualChunkAliasByEntry = [m \in Modules |-> NoAlias]
    /\ manualChunkAliasByModule = [m \in Modules |-> NoAlias]
    /\ manualChunkModulesByAlias = <<>>
    /\ manualChunkCalls = <<>>
    /\ modules = <<>>
    /\ externalModules = <<>>
    /\ cyclePaths = <<>>
    /\ needsTreeshakingPass = FALSE
    /\ treeshakingPass = 1
    /\ isExecuted = {}
    /\ included = {}
    /\ chunks = <<>>
    /\ pluginCache = EmptyCache
    /\ cacheSnapshot = NoSnapshot
    /\ buildsSinceAccess = [e \in CacheEntries |-> 0]
    /\ importers = [i \in Ids |-> <<>>]
    /\ dynamicImporters = [i \in Ids |-> <<>>]
    /\ moduleInfo = NoInfo

InitFrom(scenarios) == InitWith(scenarios, {NoOutputConfig})

Init == InitFrom(GraphScenarios \cup GenericScenarios)

\* ----------------------------------------------------------------- loading
\* Map.has / Map.get / Map.set / Map.keys on the resolved-id table
TableIds(tbl) == {tbl[i].id : i \in DOMAIN tbl}
TableHas(tbl, id) == id \in TableIds(tbl)
TableGet(tbl, id) == tbl[CHOOSE i \in DOMAIN tbl : tbl[i].id = id]
TableSet(tbl, id, rec) ==
    IF TableHas(tbl, id)
    THEN [i \in DOMAIN tbl |-> IF tbl[i].id = id THEN rec ELSE tbl[i]]
    ELSE Append(tbl, rec)
TableKeys(tbl) == [i \in DOMAIN tbl |-> tbl[i].id]

\* mutant: a record is constructed for every resolution
MustCreateAlways(tbl, id) == TRUE

\* ModuleLoader.fetchModule: a record is constructed only for an id the
\* table does not hold yet
MustCreate(tbl, id) == ~TableHas(tbl, id)

\* the ids plugins emitted as implicitly loaded chunks, and their dependants
ImplicitIds == {c.id : c \in options.implicitChunks}
ImplicitDependants == UNION {c.after : c \in options.implicitChunks}
ImplicitlyLoadedAfter(m) ==
    UNION {c.after : c \in {x \in options.implicitChunks : x.id = m}}
ImplicitlyLoadedBefore(m) ==
    {c.id : c \in {x \in options.implicitChunks : m \in x.after}}

\* normalizeEntryModules(options.input) and the root sets of the two loads
\* generateModuleGraph starts together
RootIds(t) ==
    IF t = "entry"
    THEN Range(options.input) \cup ImplicitIds \cup ImplicitDependants
    ELSE IF options.manualChunks.kind = "object"
         THEN options.manualChunks.lists[t] ELSE {}

\* build() calls generateModuleGraph, which starts addEntryModules and, for
\* manual chunk lists, addManualChunks, and awaits both; addManualChunks
\* starts the load of every list and awaits them all
StartBuild ==
    /\ pc = "idle"
    /\ pc' = "loading"
    /\ pending' = [t \in Tasks |-> RootIds(t)]
    /\ manualChunksPc' = IF options.manualChunks.kind = "object" THEN "awaiting"
                         ELSE "none"
    /\ UNCHANGED <<inputVars, outputVars, cacheVars, infoVars, phase, error, errorInfo, modulesById, created,
                   failedTasks, graphVars, inclVars, chunks>>

\* the modules a root set fetched that import the id (statically, or
\* dynamically) and wait for its resolution: they are pushed onto the
\* importers (dynamicImporters) of the record when it resolves
WaitingImporters(t, id, imports, pushed) ==
    SelectSeq(TableKeys(modulesById),
              LAMBDA a : /\ a \in Modules
                         /\ TableGet(modulesById, a).by = t
                         /\ id \in imports[a]
                         /\ a \notin Range(pushed))

\* one root set resolves an id: the record the table holds is reused, or a
\* new Module / ExternalModule is constructed and inserted, and the static
\* and dynamic imports of its source are queued with the root set that
\* fetched it; the modules waiting for the id become its importers. An id
\* that cannot be resolved or loaded rejects the load of its root set:
\* build() is rejected when that is the entry load and build() is still
\* awaiting it. A fetch that was started goes on whether or not the load
\* it belongs to, or build(), has been rejected in the meantime
FetchModule(t, id) ==
    /\ pc # "idle"
    /\ id \in pending[t]
    /\ IF id \in files.failing
       THEN /\ pending' = [pending EXCEPT ![t] = @ \ {id}]
            /\ failedTasks' = failedTasks \cup {t}
            /\ pc' = IF t = "entry" /\ pc = "loading" THEN "failed" ELSE pc
            /\ error' = IF t = "entry" /\ pc = "loading" THEN "LOAD_FAILED" ELSE error
            /\ UNCHANGED <<modulesById, created, importers, dynamicImporters>>
       ELSE /\ IF MustCreate(modulesById, id)
               THEN /\ modulesById' = TableSet(modulesById, id, [id |-> id, by |-> t])
                    /\ created' = [created EXCEPT ![id] = @ + 1]
                    /\ pending' = [pending EXCEPT ![t] =
                           (@ \ {id}) \cup
                               (IF id \in Modules
                                THEN files.imports[id] \cup files.dynamicImports[id]
                                ELSE {})]
               ELSE /\ pending' = [pending EXCEPT ![t] = @ \ {id}]
                    /\ UNCHANGED <<modulesById, created>>
            /\ importers' = [importers EXCEPT ![id] =
                   @ \o WaitingImporters(t, id, files.imports, @)]
            /\ dynamicImporters' = [dynamicImporters EXCEPT ![id] =
                   @ \o WaitingImporters(t, id, files.dynamicImports, @)]
            /\ UNCHANGED <<pc, error, failedTasks>>
    /\ UNCHANGED <<inputVars, outputVars, cacheVars, moduleInfo, phase, errorInfo,
                   manualChunksPc, graphVars, inclVars, chunks>>

\* the load of a root set has settled: it was rejected, or nothing of it is
\* left to fetch
TaskDone(t) == t \in failedTasks \/ pending[t] = {}

\* addManualChunks, await Promise.all(...): the load of every list has
\* settled (a rejected one is caught)
ListsSettled == \A a \in Aliases : TaskDone(a)

\* mutant: only the entry modules are awaited
EntryLoadingDone == pending["entry"] = {}

\* generateModuleGraph, await Promise.all([...]): the entry load has
\* completed and addManualChunks, when it was called, has returned
LoadingDone == TaskDone("entry") /\ manualChunksPc \in {"none", "done"}

\* mutant: the alias is set without looking at the existing one
AddModuleToManualChunkUnchecked(st, alias, m) ==
    IF st.err # "none" THEN st
    ELSE [st EXCEPT !.map = [@ EXCEPT ![m] = alias]]

\* addModuleToManualChunk on a state [map, err, info]; a thrown error ends
\* the loops that call it, and names the module, the alias asked for and
\* the existing alias
AddModuleToManualChunk(st, alias, m) ==
    IF st.err # "none" THEN st
    ELSE IF st.map[m] # NoAlias /\ st.map[m] # alias
         THEN [st EXCEPT !.err = "CANNOT_ASSIGN_MODULE_TO_CHUNK",
                         !.info = <<m, alias, st.map[m]>>]
         ELSE [st EXCEPT !.map = [@ EXCEPT ![m] = alias]]

RECURSIVE AddEntriesToManualChunk(_, _, _)
AddEntriesToManualChunk(st, alias, entries) ==
    IF entries = <<>> THEN st
    ELSE AddEntriesToManualChunk(AddModuleToManualChunk(st, alias, Head(entries)),
                                 alias, Tail(entries))

\* mutant: the modules a rejected list loaded are its entries
ChunkEntriesDespiteFailure(alias) ==
    SortedSeq((options.manualChunks.lists[alias] \ files.failing) \cap Modules)

\* addManualChunks: the entries of an alias are the modules of its list,
\* or [] when addAdditionalModules was rejected (.catch)
ChunkEntries(alias) ==
    IF alias \in failedTasks THEN <<>>
    ELSE SortedSeq(options.manualChunks.lists[alias] \cap Modules)

\* addManualChunks, the loops over chunkEntries: the modules of each list
\* are assigned to its alias
RECURSIVE AddManualChunks(_, _)
AddManualChunks(st, aliases) ==
    IF aliases = <<>> THEN st
    ELSE AddManualChunks(
             AddEntriesToManualChunk(st, Head(aliases), ChunkEntries(Head(aliases))),
             Tail(aliases))

\* mutant: every record of the table is handed to the callback
IsModuleRecordAlways(id) == TRUE

\* assignManualChunks: module instanceof Module
IsModuleRecord(id) == id \in Modules

\* the manualChunks callback: an alias, or null
GetManualChunk(id) ==
    IF id \in Modules THEN options.manualChunks.fn[id] ELSE NoAlias

\* assignManualChunks: the callback is asked once for every Module of the
\* table
RECURSIVE AssignManualChunks(_, _)
AssignManualChunks(st, ids) ==
    IF ids = <<>> THEN st
    ELSE LET id == Head(ids)
             alias == IF IsModuleRecord(id) THEN GetManualChunk(id) ELSE NoAlias
         IN  AssignManualChunks(
                 IF alias # NoAlias /\ id \in Modules
                 THEN AddModuleToManualChunk(st, alias, id) ELSE st,
                 Tail(ids))

\* the invocations assignManualChunks makes: the id handed to the callback
\* and what manualChunksApi.getModuleIds() yields at that time
CallbackCalls(ids) ==
    LET asked == SelectSeq(ids, IsModuleRecord)
    IN  [i \in DOMAIN asked |-> [id |-> asked[i], moduleIds |-> ids]]

\* mutant: the entry modules are not counted
NoEntryModulesIgnored(entries) == FALSE

\* generateModuleGraph: this.entryModules.length === 0
NoEntryModules(entries) == Len(entries) = 0

\* the modules of each alias, the aliases in the order in which they got
\* their first module and the modules in the order in which they got the
\* alias: the modules of ms that have an alias in map and are not listed
\* yet are appended to byAlias
RECURSIVE ModulesByAlias(_, _, _)
ModulesByAlias(byAlias, map, ms) ==
    IF ms = <<>> THEN byAlias
    ELSE LET m == Head(ms)
             alias == IF m \in Modules THEN map[m] ELSE NoAlias
             listed == \E i \in DOMAIN byAlias : m \in Range(byAlias[i].modules)
             next ==
                 IF alias = NoAlias \/ listed THEN byAlias
                 ELSE IF \E i \in DOMAIN byAlias : byAlias[i].alias = alias
                      THEN [i \in DOMAIN byAlias |->
                               IF byAlias[i].alias = alias
                               THEN [byAlias[i] EXCEPT !.modules = Append(@, m)]
                               ELSE byAlias[i]]
                      ELSE Append(byAlias, [alias |-> alias, modules |-> <<m>>])
         IN  ModulesByAlias(next, map, Tail(ms))

\* the entries of every list, in the order in which addManualChunks
\* assigns them
RECURSIVE AllChunkEntries(_)
AllChunkEntries(aliases) ==
    IF aliases = <<>> THEN <<>>
    ELSE ChunkEntries(Head(aliases)) \o AllChunkEntries(Tail(aliases))

\* addManualChunks resumes once the load of every list has settled and
\* assigns the modules in its own alias map; an error it throws rejects
\* build(), unless the entry load has rejected it before. The fields
\* generateChunks reads are not written here
ResumeAddManualChunks ==
    /\ manualChunksPc = "awaiting"
    /\ ListsSettled
    /\ LET st == AddManualChunks([map |-> manualChunkAliasByEntry, err |-> "none",
                                  info |-> <<>>], AliasSeq)
           rejects == st.err # "none" /\ pc = "loading"
       IN  /\ manualChunkAliasByEntry' = st.map
           /\ manualChunksPc' = IF st.err = "none" THEN "done" ELSE "failed"
           /\ pc' = IF rejects THEN "failed" ELSE pc
           /\ error' = IF rejects THEN st.err ELSE error
           /\ errorInfo' = IF rejects THEN st.info ELSE errorInfo
    /\ UNCHANGED <<inputVars, outputVars, cacheVars, infoVars, phase, modulesById, created,
                   pending, failedTasks, entryModules, implicitEntryModules,
                   manualChunkAliasByModule, manualChunkModulesByAlias,
                   manualChunkCalls, modules, externalModules, cyclePaths, inclVars,
                   chunks>>

\* generateModuleGraph resumes once both promises have been fulfilled: the
\* destructuring stores the entry modules and, with them, the alias map
\* and the modules of each alias as the fields generateChunks reads (the
\* same objects the callback assignment writes afterwards); a manualChunks
\* callback is asked, and the records of the table are sorted into modules
\* and external modules
GenerateModuleGraph ==
    /\ pc = "loading"
    /\ LoadingDone
    /\ LET st0 == [map |-> manualChunkAliasByEntry, err |-> "none", info |-> <<>>]
           st2 == IF options.manualChunks.kind = "function"
                  THEN AssignManualChunks(st0, TableKeys(modulesById)) ELSE st0
           entries == Dedup(options.input)
           err == IF st2.err # "none" THEN st2.err
                  ELSE IF NoEntryModules(entries) THEN "NO_INPUT" ELSE "none"
       IN  /\ manualChunkAliasByEntry' = st2.map
           /\ manualChunkAliasByModule' = st2.map
           /\ manualChunkModulesByAlias' =
                  ModulesByAlias(<<>>, st2.map,
                                 IF options.manualChunks.kind = "object"
                                 THEN AllChunkEntries(AliasSeq)
                                 ELSE TableKeys(modulesById))
           /\ error' = err
           /\ errorInfo' = st2.info
           /\ manualChunkCalls' =
                  IF options.manualChunks.kind = "function"
                  THEN manualChunkCalls \o CallbackCalls(TableKeys(modulesById))
                  ELSE manualChunkCalls
           /\ pc' = IF err = "none" THEN "graph" ELSE "failed"
           /\ entryModules' = entries
           /\ implicitEntryModules' = SortedSeq(ImplicitIds \ Range(entries))
           /\ modules' = IF err = "none"
                         THEN SelectIn(TableKeys(modulesById), Modules) ELSE modules
           /\ externalModules' = IF err = "none"
                                 THEN SelectIn(TableKeys(modulesById), Externals)
                                 ELSE externalModules
    /\ UNCHANGED <<inputVars, outputVars, cacheVars, infoVars, phase, loadVars, cyclePaths, inclVars, chunks>>

\* --------------------------------------------------------- execution order
Reverse(s) == [i \in DOMAIN s |-> s[Len(s) + 1 - i]]

\* Module.dependencies after linkDependencies: the resolved static imports
\* in declaration order
Dependencies(m) == SortedSeq(files.imports[m])
StaticImports(m) == files.imports[m] \cap Modules

\* the targets that are visited without anchoring their position: resolved
\* dynamic imports and the chunks implicitly loaded after the module
UnanchoredTargets(m) ==
    SortedSeq(ImplicitlyLoadedBefore(m))
        \o SortedSeq(files.dynamicImports[m] \cap Modules)

RECURSIVE CyclePathFrom(_, _, _)
CyclePathFrom(module, next, parent) ==
    IF next = module THEN <<>>
    ELSE <<next>> \o CyclePathFrom(module, parent[next], parent)

\* getCyclePath: from the module on the stack down to the importer that
\* closes the cycle, and back to the module
GetCyclePath(module, importer, parent) ==
    Reverse(<<module>> \o CyclePathFrom(module, importer, parent) \o <<module>>)

\* mutant: no dependency is ever taken to be on the stack
OnStackNever(st, d) == FALSE

\* a dependency that has a parent but is not analysed yet is on the stack
OnStack(st, d) == d \notin st.analysed

MarkParent(st, m, p) ==
    [st EXCEPT !.seen = @ \cup {m}, !.parent = [@ EXCEPT ![m] = p]]

\* analyseModule: depth first along the static imports; a module is
\* appended once all its dependencies have been, a dependency that is still
\* on the stack is reported as a cycle and not waited for
RECURSIVE AnalyseModule(_, _), AnalyseDependencies(_, _, _)
AnalyseDependencies(m, deps, st) ==
    IF deps = <<>> THEN st
    ELSE LET d == Head(deps)
         IN  IF d \in st.seen
             THEN AnalyseDependencies(m, Tail(deps),
                      IF OnStack(st, d)
                      THEN [st EXCEPT !.cyclePaths =
                                Append(@, GetCyclePath(d, m, st.parent))]
                      ELSE st)
             ELSE AnalyseDependencies(m, Tail(deps),
                      AnalyseModule(d, MarkParent(st, d, m)))
AnalyseModule(m, st) ==
    IF m \in Modules
    THEN LET s1 == AnalyseDependencies(m, Dependencies(m), st)
         IN  [s1 EXCEPT !.dynamicImports = Dedup(@ \o UnanchoredTargets(m)),
                        !.orderedModules = Append(@, m),
                        !.analysed = @ \cup {m}]
    ELSE [st EXCEPT !.analysed = @ \cup {m}]

RECURSIVE AnalyseRoots(_, _)
AnalyseRoots(roots, st) ==
    IF roots = <<>> THEN st
    ELSE AnalyseRoots(Tail(roots),
             IF Head(roots) \in st.seen THEN st
             ELSE AnalyseModule(Head(roots), MarkParent(st, Head(roots), 0)))

\* the second loop runs over the set of dynamic imports while it grows
RECURSIVE AnalyseDynamicImports(_, _)
AnalyseDynamicImports(i, st) ==
    IF i > Len(st.dynamicImports) THEN st
    ELSE AnalyseDynamicImports(i + 1, AnalyseRoots(<<st.dynamicImports[i]>>, st))

\* analyseModuleExecution(entryModules): {orderedModules, cyclePaths}
AnalyseModuleExecution(entries) ==
    AnalyseDynamicImports(1,
        AnalyseRoots(entries,
            [seen |-> {}, parent |-> [i \in Ids |-> 0], analysed |-> {},
             orderedModules |-> <<>>, cyclePaths |-> <<>>,
             dynamicImports |-> <<>>]))

\* mutant: the analysed order is not stored
ModulesKeptAsLoaded(loaded, ordered) == loaded

\* linkAndOrderModules: this.modules = orderedModules
ModulesAfterOrdering(loaded, ordered) == ordered

\* mutant: only the first cycle is reported
ReportedCyclesFirstOnly(paths) == IF paths = <<>> THEN <<>> ELSE <<Head(paths)>>

\* linkAndOrderModules: one CIRCULAR_DEPENDENCY warning for each cycle path
ReportedCycles(paths) == paths

\* build(), after generateModuleGraph: the phase becomes ANALYSE, the
\* modules are linked and ordered, each cycle is reported to onwarn
LinkAndOrderModules ==
    /\ pc = "graph"
    /\ phase' = ANALYSE
    /\ LET r == AnalyseModuleExecution(entryModules)
       IN  /\ modules' = ModulesAfterOrdering(modules, r.orderedModules)
           /\ cyclePaths' = cyclePaths \o ReportedCycles(r.cyclePaths)
    /\ pc' = "linked"
    /\ UNCHANGED <<inputVars, outputVars, cacheVars, infoVars, error, errorInfo, loadVars, entryModules, implicitEntryModules,
                   manualChunkAliasByEntry, manualChunkAliasByModule,
                   manualChunkModulesByAlias, manualChunkCalls,
                   externalModules, inclVars, chunks>>

\* --------------------------------------------------------------- inclusion
\* The inclusion state threaded through the Module methods:
\* [ex: executed modules, inc: included statements, needs: needsTreeshakingPass]
MaxPasses == Cardinality(Stmts) + 2

IsEntryPoint(m) == m \in Range(options.input) /\ TableHas(modulesById, m)
IsIncludedIn(inc, m) == StmtsOf(m) \cap inc # {}
IsIncluded(m) == IsIncludedIn(included, m)
ExportsOf(m) == StmtsOf(m) \cap files.exports

\* markModuleAndImpureDependenciesAsExecuted: the module, and along the
\* static imports every dependency with moduleSideEffects
RECURSIVE MarkImpureDependencies(_, _)
MarkImpureDependencies(todo, ex) ==
    IF todo = {} THEN ex
    ELSE LET m == CHOOSE x \in todo : TRUE
             new == {d \in StaticImports(m) :
                        d \notin ex /\ d \in files.moduleSideEffects}
         IN  MarkImpureDependencies((todo \ {m}) \cup new, ex \cup new)
MarkModuleAndImpureDependenciesAsExecuted(m, ex) ==
    MarkImpureDependencies({m}, ex \cup {m})

RECURSIVE MarkAllExecuted(_, _)
MarkAllExecuted(ms, ex) ==
    IF ms = {} THEN ex
    ELSE LET m == CHOOSE x \in ms : TRUE
         IN  MarkAllExecuted(ms \ {m},
                 IF m \in ex THEN ex
                 ELSE MarkModuleAndImpureDependenciesAsExecuted(m, ex))

\* a set of declarations is referenced: those not yet included become
\* included, their modules executed, and another pass is asked for
IncludeVariables(st, targets) ==
    LET new == targets \ st.inc
    IN  [ex |-> MarkAllExecuted({ModuleOf(t) : t \in new}, st.ex),
         inc |-> st.inc \cup new,
         needs |-> st.needs \/ new # {}]

\* Module.includeAllExports
IncludeAllExports(m, st) ==
    LET s1 == IF m \in st.ex THEN st
              ELSE [st EXCEPT !.ex = MarkModuleAndImpureDependenciesAsExecuted(m, @),
                              !.needs = TRUE]
    IN  IncludeVariables(s1, ExportsOf(m))

\* the local include step of one statement: a statement that is included
\* or has side effects is included together with what it references
IncludeStatement(s, st) ==
    IF s \in st.inc \/ s \in files.hasEffects
    THEN IncludeVariables([st EXCEPT !.inc = @ \cup {s}], RefsOf(s))
    ELSE st

\* Module.include: the statements in source order
RECURSIVE IncludeStatementsOf(_, _)
IncludeStatementsOf(ss, st) ==
    IF ss = <<>> THEN st
    ELSE IncludeStatementsOf(Tail(ss), IncludeStatement(Head(ss), st))
ModuleInclude(m, st) == IncludeStatementsOf(StmtSeq(m), st)

\* Module.includeAllInBundle: every statement, and what it references
ModuleIncludeAllInBundle(m, st) ==
    LET s1 == [st EXCEPT !.inc = @ \cup StmtsOf(m), !.ex = @ \cup {m}]
    IN  IncludeVariables(s1, UNION {RefsOf(s) : s \in StmtsOf(m)})

\* mutant: the implicit entry modules are not seeded
SeedEntryModulesOnly == entryModules

\* includeStatements, the first loop: entry and implicit entry modules
SeedModules == entryModules \o implicitEntryModules
PreservesSignature(m) == m \notin files.preserveSignatureFalse
SeedModule(m, st) ==
    IF PreservesSignature(m) THEN IncludeAllExports(m, st)
    ELSE [st EXCEPT !.ex = MarkModuleAndImpureDependenciesAsExecuted(m, @)]

RECURSIVE SeedAll(_, _)
SeedAll(ms, st) ==
    IF ms = <<>> THEN st ELSE SeedAll(Tail(ms), SeedModule(Head(ms), st))

\* mutants: the flag is not reset; the inclusion flags are reset with it
PassStartNoReset(st) == st
PassStartResetAll(st) == [ex |-> st.ex, inc |-> {}, needs |-> FALSE]

\* one tree-shaking pass: the flag is reset, then every executed module of
\* this.modules runs its include step
PassStart(st) == [st EXCEPT !.needs = FALSE]
RECURSIVE PassOver(_, _)
PassOver(ms, st) ==
    IF ms = <<>> THEN st
    ELSE PassOver(Tail(ms),
             IF Head(ms) \in st.ex THEN ModuleInclude(Head(ms), st) ELSE st)
TreeshakingPassOf(ms, st) == PassOver(ms, PassStart(st))

\* mutant: a pass visits the entry modules only
PassEntryModules == entryModules

\* the modules a pass runs over: this.modules
PassModules == modules

\* mutant: the loop body runs once
RepeatPassNever(needs) == FALSE

\* the do-while condition
RepeatPass(needs) == needs

RECURSIVE IncludeAllOver(_, _)
IncludeAllOver(ms, st) ==
    IF ms = <<>> THEN st
    ELSE IncludeAllOver(Tail(ms), ModuleIncludeAllInBundle(Head(ms), st))

InclusionState == [ex |-> isExecuted, inc |-> included, needs |-> needsTreeshakingPass]

SetInclusionState(st) ==
    /\ isExecuted' = st.ex
    /\ included' = st.inc
    /\ needsTreeshakingPass' = st.needs

IncludeSeed ==
    /\ pc = "linked"
    /\ SetInclusionState(SeedAll(SeedModules, InclusionState))
    /\ pc' = "marking"
    /\ UNCHANGED <<inputVars, outputVars, cacheVars, infoVars, phase, error, errorInfo, loadVars, graphVars, treeshakingPass, chunks>>

TreeshakePass ==
    /\ pc = "marking"
    /\ options.treeshake
    /\ treeshakingPass < MaxPasses
    /\ LET st == TreeshakingPassOf(PassModules, InclusionState)
       IN  /\ SetInclusionState(st)
           /\ pc' = IF RepeatPass(st.needs) THEN "marking" ELSE "marked"
    /\ treeshakingPass' = treeshakingPass + 1
    /\ UNCHANGED <<inputVars, outputVars, cacheVars, infoVars, phase, error, errorInfo, loadVars, graphVars, chunks>>

IncludeAllInBundle ==
    /\ pc = "marking"
    /\ ~options.treeshake
    /\ SetInclusionState(IncludeAllOver(modules, InclusionState))
    /\ pc' = "marked"
    /\ UNCHANGED <<inputVars, outputVars, cacheVars, infoVars, phase, error, errorInfo, loadVars, graphVars, treeshakingPass, chunks>>

\* mutant: the dependants are not checked
MissingDependantsNone(implicit) == {}

\* the last loop of includeStatements
MissingDependants(implicit) ==
    {d \in UNION {ImplicitlyLoadedAfter(m) : m \in Range(implicit)} :
        ~(IsEntryPoint(d) \/ IsIncluded(d))}

\* includeStatements returns or throws; build() then sets the phase
FinishIncludeStatements ==
    /\ pc = "marked"
    /\ IF MissingDependants(implicitEntryModules) # {}
       THEN /\ error' = "IMPLICIT_DEPENDANT_NOT_INCLUDED"
            /\ pc' = "failed"
            /\ UNCHANGED phase
       ELSE /\ phase' = GENERATE
            /\ pc' = "done"
            /\ UNCHANGED error
    /\ UNCHANGED errorInfo
    /\ UNCHANGED <<inputVars, outputVars, cacheVars, infoVars, loadVars, graphVars, inclVars, chunks>>

\* ------------------------------------------------------------------ chunks
RECURSIVE ReachFrom(_, _)
ReachFrom(todo, seen) ==
    IF todo = {} THEN seen
    ELSE LET m == CHOOSE x \in todo : TRUE
             new == (StaticImports(m) \cap TableIds(modulesById)) \ seen
         IN  ReachFrom((todo \ {m}) \cup new, seen \cup new)
StaticReach(e) == ReachFrom({e}, {e})

\* sortByExecutionOrder: by execIndex, which only analysed modules have
SortByExecutionOrder(S) ==
    SelectIn(modules, S) \o SortedSeq(S \ Range(modules))

IncludedDynamicImporters(m) ==
    {i \in Modules : m \in files.dynamicImports[i] /\ IsIncluded(i)}

\* the entry points of automatic chunking: the entry modules and, as
\* synthetic entries, the dynamic import targets and the implicitly loaded
\* chunks reached from them
RECURSIVE ChunkEntryPoints(_)
ChunkEntryPoints(es) ==
    LET reached == UNION {StaticReach(e) : e \in es}
        more == (UNION {files.dynamicImports[m] \cup ImplicitlyLoadedBefore(m) :
                            m \in reached}
                    \cap Modules \cap TableIds(modulesById)) \ es
    IN  IF more = {} THEN es ELSE ChunkEntryPoints(es \cup more)

Signature(m, es) == {e \in es : m \in StaticReach(e)}

\* getChunkAssignments: the modules of each alias form one manual chunk,
\* under the keys of modulesByAlias in their order; the other included
\* modules are grouped by the set of entry points reaching them
GetChunkAssignments(entries, modulesByAlias, aliasByModule) ==
    LET es == ChunkEntryPoints(Range(entries))
        manual == [i \in DOMAIN modulesByAlias |->
                      [alias |-> modulesByAlias[i].alias,
                       modules |-> {m \in Modules :
                                       /\ aliasByModule[m] = modulesByAlias[i].alias
                                       /\ TableHas(modulesById, m)}]]
        auto == {m \in Modules : /\ aliasByModule[m] = NoAlias
                                 /\ Signature(m, es) # {}
                                 /\ IsIncluded(m)}
        groups == {{n \in auto : Signature(n, es) = Signature(m, es)} : m \in auto}
        first(g) == Head(SortByExecutionOrder(g))
        ordered == SelectIn(SortByExecutionOrder(auto),
                            {first(g) : g \in groups})
    IN  [chunks |-> [i \in DOMAIN ordered |->
                        CHOOSE g \in groups : ordered[i] \in g],
         manualChunks |-> manual]

\* mutant: chunk.entryModules is never set
NewChunkWithoutEntries(ms, alias, entries) ==
    [modules |-> ms, alias |-> alias, entryModules |-> <<>>, facadeModule |-> <<>>]

\* new Chunk(modules, ..., alias), and chunk.entryModules where it is set;
\* a chunk that generateChunks creates is the facade of no module yet
NewChunk(ms, alias, entries) ==
    [modules |-> ms, alias |-> alias, entryModules |-> entries, facadeModule |-> <<>>]

\* mutant: only the entry points get a chunk
KeepsModuleEntriesOnly(m) == IsEntryPoint(m)

\* generateChunks with preserveModules: the modules that get a chunk
KeepsModule(m) ==
    IsIncluded(m) \/ IsEntryPoint(m) \/ IncludedDynamicImporters(m) # {}

\* mutant: every module of this.modules gets a chunk
PreserveModulesChunksUnfiltered ==
    [i \in DOMAIN modules |-> NewChunk(<<modules[i]>>, NoAlias, <<modules[i]>>)]

\* generateChunks with preserveModules: one Chunk for each module kept
PreserveModulesChunks ==
    LET kept == SelectSeq(modules, KeepsModule)
    IN  [i \in DOMAIN kept |-> NewChunk(<<kept[i]>>, NoAlias, <<kept[i]>>)]

\* mutant: the module lists are merged into one chunk
ChunkedModulesMerged(lists) ==
    IF lists = <<>> THEN <<>> ELSE <<UNION Range(lists)>>

\* generateChunks: one Chunk for each module list of the assignment
ChunkedModules(lists) == lists

\* mutant: a manual chunk is created like an automatic one, without alias
ManualChunkAliasDropped(alias) == NoAlias

\* the alias handed to the Chunk of a manual chunk
ManualChunkAlias(alias) == alias

\* mutant: every module of this.modules is a chunk of its own
InlineAssignmentPerModule ==
    [chunks |-> [i \in DOMAIN modules |-> {modules[i]}], manualChunks |-> <<>>]

\* generateChunks with inlineDynamicImports:
\* { chunks: [this.modules], manualChunks: {} }
InlineAssignment ==
    [chunks |-> <<Range(modules)>>, manualChunks |-> <<>>]

\* generateChunks without preserveModules, the two loops: a Chunk for each
\* module list of the assignment, then a Chunk with alias for each key of
\* its manual chunks, in the order of the keys and also for an empty list
ChunksOfAssignment(a) ==
    LET lists == ChunkedModules(a.chunks)
    IN  [i \in DOMAIN lists |->
            NewChunk(SortByExecutionOrder(lists[i]), NoAlias, <<>>)]
        \o [i \in DOMAIN a.manualChunks |->
               NewChunk(SortByExecutionOrder(a.manualChunks[i].modules),
                        ManualChunkAlias(a.manualChunks[i].alias), <<>>)]

AssignedChunks ==
    ChunksOfAssignment(
        IF options.inlineDynamicImports
        THEN InlineAssignment
        ELSE GetChunkAssignments(entryModules, manualChunkModulesByAlias,
                                 manualChunkAliasByModule))

\* a facade chunk: it holds no module and stands for an entry module
Facade(m) ==
    [modules |-> <<>>, alias |-> NoAlias, entryModules |-> <<>>, facadeModule |-> <<m>>]

\* chunk.generateFacades: one facade for each entry point among the modules
\* of the chunk whose exports the chunk itself cannot stand for
GenerateFacades(chunk) ==
    LET needed == SelectSeq(chunk.modules,
                            LAMBDA m : IsEntryPoint(m) /\ m \in files.facades)
    IN  [i \in DOMAIN needed |-> Facade(needed[i])]

\* facades.push(...chunk.generateFacades()) for each chunk
RECURSIVE FacadesOf(_)
FacadesOf(cs) ==
    IF cs = <<>> THEN <<>> ELSE GenerateFacades(Head(cs)) \o FacadesOf(Tail(cs))

\* generateChunks runs whenever the caller invokes it; build() is not
\* running a synchronous stage at that moment
AwaitPoints == {"idle", "loading", "graph", "done", "failed"}

\* generateChunks: the chunks are created, linked (which changes nothing
\* but the chunks' own imports and exports) and asked for their facades;
\* the call returns [...chunks, ...facades]
GenerateChunks ==
    /\ pc \in AwaitPoints
    /\ LET createdChunks == IF options.preserveModules THEN PreserveModulesChunks
                            ELSE AssignedChunks
       IN  chunks' = createdChunks \o FacadesOf(createdChunks)
    /\ UNCHANGED <<inputVars, outputVars, cacheVars, infoVars, phase, pc, error, errorInfo, loadVars, graphVars, inclVars>>

\* ------------------------------------------------------------------- cache
\* the constructor: cache[key][0]++
Incremented(c) == c + 1

\* the constructor seeded with a cache: every counter is incremented
IncrementAccessCounters(cache) ==
    [cache EXCEPT !.ctr = [e \in CacheEntries |->
                              IF e \in cache.keys THEN Incremented(@[e]) ELSE @[e]]]

\* mutant: an entry is evicted one build later
ExpiredLate(c) == c > options.experimentalCacheExpiry

\* getCache: cache[key][0] >= this.options.experimentalCacheExpiry
Expired(c) == c >= options.experimentalCacheExpiry

\* getCache, the eviction loop: expired keys are deleted, and a group all of
\* whose keys were deleted (or that had none) is deleted
Evict(cache) ==
    LET kept == {e \in cache.keys : ~Expired(cache.ctr[e])}
    IN  [groups |-> {n \in cache.groups : \E e \in kept : e[1] = n},
         keys |-> kept,
         ctr |-> [e \in CacheEntries |-> IF e \in kept THEN cache.ctr[e] ELSE 0]]

\* a plugin reads or writes a key of its cache while the modules load: the
\* key exists afterwards and its counter is 0
CacheAccess(e) ==
    /\ pc = "loading"
    /\ pluginCache' = [groups |-> pluginCache.groups \cup {e[1]},
                       keys |-> pluginCache.keys \cup {e},
                       ctr |-> [pluginCache.ctr EXCEPT ![e] = 0]]
    /\ buildsSinceAccess' = [buildsSinceAccess EXCEPT ![e] = 0]
    /\ UNCHANGED <<inputVars, outputVars, infoVars, phase, pc, error, errorInfo, loadVars,
                   graphVars, inclVars, chunks, cacheSnapshot>>

\* getCache, called once build() has settled: the plugin cache is evicted
\* in place and returned with the serialised this.modules
GetCache ==
    /\ pc \in {"done", "failed"}
    /\ pluginCache' = Evict(pluginCache)
    /\ cacheSnapshot' = [taken |-> TRUE, modules |-> modules,
                         plugins |-> Evict(pluginCache)]
    /\ UNCHANGED <<inputVars, outputVars, infoVars, phase, pc, error, errorInfo, loadVars,
                   graphVars, inclVars, chunks, buildsSinceAccess>>

\* the next build: a new Graph is constructed with the same options and
\* options.cache set to the snapshot of the previous one
NewGraph ==
    /\ cacheSnapshot.taken
    /\ phase' = LOAD_AND_PARSE
    /\ pc' = "idle"
    /\ error' = "none"
    /\ errorInfo' = <<>>
    /\ modulesById' = <<>>
    /\ created' = [i \in Ids |-> 0]
    /\ pending' = [t \in Tasks |-> {}]
    /\ failedTasks' = {}
    /\ manualChunksPc' = "none"
    /\ entryModules' = <<>>
    /\ implicitEntryModules' = <<>>
    /\ manualChunkAliasByEntry' = [m \in Modules |-> NoAlias]
    /\ manualChunkAliasByModule' = [m \in Modules |-> NoAlias]
    /\ manualChunkModulesByAlias' = <<>>
    /\ manualChunkCalls' = <<>>
    /\ modules' = <<>>
    /\ externalModules' = <<>>
    /\ cyclePaths' = <<>>
    /\ needsTreeshakingPass' = FALSE
    /\ treeshakingPass' = 1
    /\ isExecuted' = {}
    /\ included' = {}
    /\ chunks' = <<>>
    /\ pluginCache' = IncrementAccessCounters(cacheSnapshot.plugins)
    /\ cacheSnapshot' = NoSnapshot
    /\ buildsSinceAccess' =
           [e \in CacheEntries |->
               IF e \in cacheSnapshot.plugins.keys THEN buildsSinceAccess[e] + 1 ELSE 0]
    /\ importers' = [i \in Ids |-> <<>>]
    /\ dynamicImporters' = [i \in Ids |-> <<>>]
    /\ moduleInfo' = NoInfo
    /\ UNCHANGED <<inputVars, outputVars>>

\* ------------------------------------------------------------- module info
RECURSIVE InsertSorted(_, _)
InsertSorted(x, s) ==
    IF s = <<>> THEN <<x>>
    ELSE IF x <= Head(s) THEN <<x>> \o s
         ELSE <<Head(s)>> \o InsertSorted(x, Tail(s))

\* mutant: the array is returned as it is
ArraySortSkipped(s) == s

\* Array.prototype.sort() on an array of ids: ascending (the ids of the
\* model are single characters, which compare as their numbers do)
RECURSIVE ArraySort(_)
ArraySort(s) ==
    IF s = <<>> THEN <<>> ELSE InsertSorted(Head(s), ArraySort(Tail(s)))

\* a dynamic import of a module has a Module or ExternalModule as its
\* resolution once the fetch of the target has resolved for the importer,
\* which is when the importer is pushed onto the target's dynamicImporters
DynamicImportResolved(id, target) == id \in Range(dynamicImporters[target])

\* getModuleInfo for an id the table holds; a dynamic import is listed
\* only when its resolution is a Module or an ExternalModule
ModuleInfoOf(id) ==
    LET isModule == id \in Modules
    IN  [called |-> TRUE, err |-> "none", id |-> id,
         dynamicallyImportedIds |->
             IF isModule
             THEN SelectSeq(SortedSeq(files.dynamicImports[id]),
                            LAMBDA d : DynamicImportResolved(id, d))
             ELSE <<>>,
         dynamicImporters |-> ArraySort(dynamicImporters[id]),
         hasModuleSideEffects |-> (isModule => id \in files.moduleSideEffects),
         implicitlyLoadedAfterOneOf |->
             IF isModule THEN SortedSeq(ImplicitlyLoadedAfter(id)) ELSE <<>>,
         implicitlyLoadedBefore |->
             IF isModule THEN SortedSeq(ImplicitlyLoadedBefore(id)) ELSE <<>>,
         importedIds |-> IF isModule THEN Dependencies(id) ELSE <<>>,
         importers |-> ArraySort(importers[id]),
         isEntry |-> (isModule /\ IsEntryPoint(id)),
         isExternal |-> (id \in Externals)]

\* getModuleInfo(moduleId), which a plugin may call at any time: an id the
\* table does not hold throws; for a record, its importers and
\* dynamicImporters arrays are sorted in place and returned
GetModuleInfo(id) ==
    /\ IF ~TableHas(modulesById, id)
       THEN /\ moduleInfo' = [NoInfo EXCEPT !.called = TRUE, !.id = id,
                                            !.err = "UNABLE_TO_FIND_MODULE"]
            /\ UNCHANGED <<importers, dynamicImporters>>
       ELSE /\ moduleInfo' = ModuleInfoOf(id)
            /\ importers' = [importers EXCEPT ![id] = ArraySort(@)]
            /\ dynamicImporters' = [dynamicImporters EXCEPT ![id] = ArraySort(@)]
    /\ UNCHANGED <<inputVars, outputVars, cacheVars, phase, pc, error, errorInfo, loadVars,
                   graphVars, inclVars, chunks>>

\* ---------------------------------------------------------- output options
\* JavaScript truthiness of a manualChunks value: an object (also an empty
\* one) and a function are truthy, undefined is not
HasManualChunks(mc) == mc.kind # "none"

\* the object {}
EmptyObject == ManualChunkLists([a \in Aliases |-> {}])

\* what a getter yields: a value, or the error it throws
Value(v) == [ok |-> TRUE, value |-> v, code |-> "none", option |-> "none"]
Failure(code, option) ==
    [ok |-> FALSE, value |-> Undefined, code |-> code, option |-> option]

\* getFile: output.file with preserveModules is an error (the inputs of the
\* model are arrays)
GetFile(config) ==
    IF config.file # Undefined /\ options.preserveModules
    THEN Failure("INVALID_OPTION", "file") ELSE Value(config.file)

\* getFormat: the aliases are normalised, an unknown format is an error
\* without code
GetFormat(config) ==
    CASE config.format \in {Undefined, "es", "esm", "module"} -> Value("es")
      [] config.format \in {"cjs", "commonjs"} -> Value("cjs")
      [] config.format \in {"system", "systemjs"} -> Value("system")
      [] config.format \in {"amd", "iife", "umd"} -> Value(config.format)
      [] OTHER -> Failure(Undefined, "format")

\* getDir: output.dir together with output.file is an error
GetDir(config, file) ==
    IF config.dir # Undefined /\ file # Undefined
    THEN Failure("INVALID_OPTION", "dir") ELSE Value(config.dir)

\* getExports: a value other than the four known ones is an error
GetExports(config) ==
    IF config.exports \notin {Undefined, "", "default", "named", "none", "auto"}
    THEN Failure("INVALID_EXPORT_OPTION", "exports")
    ELSE IF config.exports \in {Undefined, ""} THEN Value("auto")
         ELSE Value(config.exports)

\* mutant: preserveModules is not checked
GetManualChunksUnlessInline(config) ==
    LET configManualChunks ==
            IF HasManualChunks(config.manualChunks) THEN config.manualChunks
            ELSE options.manualChunks
    IN  IF HasManualChunks(configManualChunks) /\ options.inlineDynamicImports
        THEN Failure("INVALID_OPTION", "manualChunks")
        ELSE IF HasManualChunks(configManualChunks) THEN Value(configManualChunks)
             ELSE Value(EmptyObject)

\* getManualChunks: config.manualChunks || inputOptions.manualChunks, which
\* inlineDynamicImports and preserveModules do not support
GetManualChunks(config) ==
    LET configManualChunks ==
            IF HasManualChunks(config.manualChunks) THEN config.manualChunks
            ELSE options.manualChunks
    IN  IF HasManualChunks(configManualChunks) /\ options.inlineDynamicImports
        THEN Failure("INVALID_OPTION", "manualChunks")
        ELSE IF HasManualChunks(configManualChunks) /\ options.preserveModules
             THEN Failure("INVALID_OPTION", "manualChunks")
             ELSE IF HasManualChunks(configManualChunks) THEN Value(configManualChunks)
                  ELSE Value(EmptyObject)

Thrown(r) ==
    [called |-> TRUE, code |-> r.code, option |-> r.option, options |-> NoOutputConfig]

\* normalizeOutputOptions: the options are computed in the order of the
\* source, and the first error thrown ends the call
NormalizeOutputOptionsOf(config) ==
    LET file == GetFile(config)
        format == GetFormat(config)
        dir == GetDir(config, file.value)
        exports == GetExports(config)
        manualChunks == GetManualChunks(config)
    IN  IF ~file.ok THEN Thrown(file)
        ELSE IF ~format.ok THEN Thrown(format)
        ELSE IF ~dir.ok THEN Thrown(dir)
        ELSE IF ~exports.ok THEN Thrown(exports)
        ELSE IF ~manualChunks.ok THEN Thrown(manualChunks)
        ELSE [called |-> TRUE, code |-> "none", option |-> "none",
              options |-> MkOutputConfig(manualChunks.value, file.value, dir.value,
                                         format.value, exports.value)]

NormalizeOutputOptions ==
    /\ ~outputOptions.called
    /\ outputOptions' = NormalizeOutputOptionsOf(outputConfig)
    /\ UNCHANGED <<inputVars, outputConfig, cacheVars, infoVars, phase, pc, error,
                   errorInfo, loadVars, graphVars, inclVars, chunks>>

\* ----------------------------------------------------------- specification
Next ==
    \/ StartBuild
    \/ \E t \in Tasks, id \in Ids : FetchModule(t, id)
    \/ ResumeAddManualChunks
    \/ GenerateModuleGraph
    \/ LinkAndOrderModules
    \/ IncludeSeed
    \/ TreeshakePass
    \/ IncludeAllInBundle
    \/ FinishIncludeStatements
    \/ GenerateChunks

Spec == Init /\ [][Next]_vars

InitInclude == InitFrom(InclusionScenarios \cup GenericScenarios)
SpecInclude == InitInclude /\ [][Next]_vars

\* the passes of includeStatements are synchronous code: once started, the
\* loop is run until its condition ends it
FairSpecInclude == SpecInclude /\ WF_vars(TreeshakePass)

InitImplicit == InitFrom(ImplicitScenarios \cup GenericScenarios)
SpecImplicit == InitImplicit /\ [][Next]_vars

InitLoad == InitFrom(LoadScenarios \cup GenericScenarios)
SpecLoad == InitLoad /\ [][Next]_vars

InitChunk == InitFrom(ChunkScenarios \cup GenericScenarios)
SpecChunk == InitChunk /\ [][Next]_vars

\* a sequence of builds, each seeded with the cache snapshot of the one
\* before, whose plugins use their caches while the modules load
NextCache == Next \/ (\E e \in CacheEntries : CacheAccess(e)) \/ GetCache \/ NewGraph

InitCache == InitFrom(CacheScenarios \cup GenericScenarios)
SpecCache == InitCache /\ [][NextCache]_vars

\* a build during and after which plugins ask for module information
NextInfo == Next \/ (\E id \in Ids : GetModuleInfo(id))

InitInfo == InitFrom(InfoScenarios \cup GenericScenarios)
SpecInfo == InitInfo /\ [][NextInfo]_vars

InitManual == InitFrom(ManualScenarios \cup GenericScenarios)
SpecManual == InitManual /\ [][Next]_vars

InitMode == InitFrom(ModeScenarios \cup GenericScenarios)
SpecMode == InitMode /\ [][Next]_vars

\* output configs normalised against input options of every chunking mode
NextOutput == NormalizeOutputOptions

InitOutput == InitWith(OutputScenarios, OutputConfigs)
SpecOutput == InitOutput /\ [][NextOutput]_vars

InitOrder == InitFrom(OrderScenarios \cup GenericScenarios)
SpecOrder == InitOrder /\ [][Next]_vars

\* ------------------------------------------------------------------ claims
AfterOrdering == pc \in {"linked", "marking", "marked", "done"}
                    \/ (pc = "failed" /\ phase = ANALYSE)
AfterInclusion == pc \in {"marked", "done"} \/ (pc = "failed" /\ phase = ANALYSE)

\* every root id and every import of a loaded module is in the table, and
\* no root set has an id left to fetch
LoadComplete ==
    /\ \A t \in Tasks : pending[t] = {} /\ RootIds(t) \subseteq TableIds(modulesById)
    /\ \A m \in TableIds(modulesById) \cap Modules :
           files.imports[m] \cup files.dynamicImports[m] \subseteq TableIds(modulesById)

\* C1 as stated: during build() the phase only advances LOAD_AND_PARSE ->
\* ANALYSE -> GENERATE, one step at a time and never backwards; it leaves
\* LOAD_AND_PARSE (linking and ordering start) only when the entry load and
\* every manual chunk load have fully completed; inclusion flags change
\* only in phase ANALYSE with this.modules already in execution order; the
\* phase becomes GENERATE only from the end of inclusion and without an
\* error.
C1_PhasesAdvanceInOrder ==
    [][/\ phase' \in {phase, phase + 1}
       /\ (phase' # phase /\ phase' = ANALYSE) => LoadComplete /\ error = "none"
       /\ (isExecuted' # isExecuted \/ included' # included) =>
              /\ phase = ANALYSE
              /\ modules = AnalyseModuleExecution(entryModules).orderedModules
       /\ (phase' # phase /\ phase' = GENERATE) =>
              pc = "marked" /\ error' = "none"]_vars

\* the entry load has completed, and the load of every manual chunk list
\* has completed or was rejected; addManualChunks, when called, has returned
LoadSettled ==
    /\ "entry" \notin failedTasks /\ pending["entry"] = {}
    /\ RootIds("entry") \subseteq TableIds(modulesById)
    /\ \A a \in Aliases :
           \/ a \in failedTasks
           \/ pending[a] = {} /\ RootIds(a) \subseteq TableIds(modulesById)
    /\ manualChunksPc \in {"none", "done"}

\* C1, amended: the phase only advances LOAD_AND_PARSE -> ANALYSE ->
\* GENERATE, one step at a time and never backwards; it leaves
\* LOAD_AND_PARSE only without an error, when the entry load has completed
\* and every manual chunk load has completed or was rejected, and when none
\* was rejected nothing is left to load; inclusion flags change only in
\* phase ANALYSE with this.modules already in execution order; the phase
\* becomes GENERATE only from the end of inclusion and without an error.
C1_PhasesAdvanceAfterSettledLoads ==
    [][/\ phase' \in {phase, phase + 1}
       /\ (phase' # phase /\ phase' = ANALYSE) =>
              /\ LoadSettled /\ error = "none"
              /\ failedTasks = {} => LoadComplete
       /\ (isExecuted' # isExecuted \/ included' # included) =>
              /\ phase = ANALYSE
              /\ modules = AnalyseModuleExecution(entryModules).orderedModules
       /\ (phase' # phase /\ phase' = GENERATE) =>
              pc = "marked" /\ error' = "none"]_vars

\* a build with manual chunk lists reached GENERATE: the load of one list
\* had inserted a module of its own, the load of the other was rejected
C1_Witness ==
    /\ pc = "done" /\ phase = GENERATE
    /\ \E i \in DOMAIN modulesById : modulesById[i].by \in Aliases \ failedTasks
    /\ failedTasks # {}
    /\ included # {}

\* C2: generateChunks is guarded by the phase: chunks are only ever created
\* in phase GENERATE; a call in LOAD_AND_PARSE or ANALYSE creates none.
C2_GenerateChunksGuarded == chunks # <<>> => phase = GENERATE

\* C3: whatever the interleaving of the entry load and the manual chunk
\* loads, the table holds one record per id, a record once inserted is
\* never replaced or moved (the first insertion wins), and no id has a
\* record constructed for it twice.
C3_OneRecordPerId ==
    [][/\ \A id \in Ids : created'[id] <= 1
       /\ \A i \in DOMAIN modulesById :
              i \in DOMAIN modulesById' /\ modulesById'[i] = modulesById[i]
       /\ \A i, j \in DOMAIN modulesById' :
              modulesById'[i].id = modulesById'[j].id => i = j]_vars

\* an entry module was first inserted by the load of one manual chunk and
\* the entry load reused the record, while a module that this load reached
\* through an import had been inserted by the load of the other manual chunk
C3_Witness ==
    /\ pc = "graph"
    /\ \E i \in DOMAIN modulesById :
           /\ modulesById[i].by = "a"
           /\ modulesById[i].id \in Range(options.input)
           /\ \E j \in DOMAIN modulesById :
                  /\ modulesById[j].by = "b"
                  /\ modulesById[j].id \in StaticReach(modulesById[i].id)
    /\ \A id \in TableIds(modulesById) : created[id] = 1

\* C4: with tree-shaking enabled the pass loop terminates; a pass is
\* followed by another one only if it set needsTreeshakingPass, which it
\* does only by newly including a statement, and the loop is left after
\* the first pass that leaves the flag unset.
C4_TreeshakingTerminates ==
    /\ (pc = "marking" /\ options.treeshake) ~> (pc = "marked")
    /\ [][treeshakingPass' # treeshakingPass =>
              /\ (pc' = "marking") = needsTreeshakingPass'
              /\ needsTreeshakingPass' => (included \subseteq included' /\ included' # included)
              /\ pc' \in {"marking", "marked"}]_vars

\* the loop ended after three passes
C4_Witness ==
    /\ pc = "marked" /\ options.treeshake
    /\ treeshakingPass = 4 /\ ~needsTreeshakingPass

\* C5 as stated: when the tree-shaking loop has exited, every declaration
\* referenced by an included statement is included and its module is
\* executed.
C5_InclusionClosed ==
    (AfterInclusion /\ options.treeshake) =>
        \A s \in included : \A r \in RefsOf(s) :
            r \in included /\ ModuleOf(r) \in isExecuted

\* C5, amended: when the tree-shaking loop has exited, every declaration
\* referenced by an included statement of a module of this.modules is
\* included and its module is executed; an included statement of any other
\* module is an export of an implicit entry module, which the seed
\* included and no pass visited.
C5_InclusionClosedOverModules ==
    (AfterInclusion /\ options.treeshake) =>
        \A s \in included :
            IF ModuleOf(s) \in Range(modules)
            THEN \A r \in RefsOf(s) : r \in included /\ ModuleOf(r) \in isExecuted
            ELSE /\ ModuleOf(s) \in Range(implicitEntryModules)
                 /\ s \in ExportsOf(ModuleOf(s))

\* a module B without moduleSideEffects precedes its importer A in the
\* order, was executed only because a statement of A references its
\* export, and B's export references a third module in turn
C5_Witness ==
    /\ pc = "marked" /\ options.treeshake
    /\ \E s \in included : \E r \in RefsOf(s) : \E q \in RefsOf(r) :
           /\ ModuleOf(r) # ModuleOf(s) /\ ModuleOf(q) # ModuleOf(r)
           /\ ModuleOf(q) # ModuleOf(s)
           /\ ModuleOf(r) \notin files.moduleSideEffects
           /\ IndexOf(modules, ModuleOf(r)) < IndexOf(modules, ModuleOf(s))
           /\ IndexOf(modules, ModuleOf(q)) < IndexOf(modules, ModuleOf(r))
           /\ q \in included

\* C6: after includeStatements has finished, seeding the entry modules and
\* running a pass again changes no isExecuted flag and no inclusion flag
\* and leaves needsTreeshakingPass unset.
C6_PropagationIdempotent ==
    (AfterInclusion /\ options.treeshake) =>
        LET st == TreeshakingPassOf(modules,
                      SeedAll(SeedModules,
                          [ex |-> isExecuted, inc |-> included, needs |-> FALSE]))
        IN  st.ex = isExecuted /\ st.inc = included /\ ~st.needs

\* the fixed point took three passes to reach
C6_Witness ==
    /\ pc = "done" /\ options.treeshake
    /\ treeshakingPass = 4
    /\ Cardinality(included) >= 3

\* C7: isExecuted and the statement inclusion flags (hence isIncluded)
\* only ever go from false to true: no step of ordering, inclusion or
\* chunk generation clears one.
C7_FlagsMonotonic ==
    [][/\ isExecuted \subseteq isExecuted'
       /\ included \subseteq included'
       /\ \A m \in Modules : IsIncludedIn(included, m) => IsIncludedIn(included', m)]_vars

\* flags set in the first pass are still set after a later pass and after
\* generateChunks
C7_Witness ==
    /\ pc = "done" /\ chunks # <<>>
    /\ treeshakingPass >= 3
    /\ included # {} /\ isExecuted # {}

\* C8: once includeStatements has completed, every export of every entry
\* module and implicit entry module whose preserveSignature is not false
\* is included, with and without tree-shaking.
C8_EntryExportsIncluded ==
    AfterInclusion =>
        \A m \in Range(entryModules) \cup Range(implicitEntryModules) :
            m \notin files.preserveSignatureFalse =>
                StmtsOf(m) \cap files.exports \subseteq included

\* tree-shaking is on, an implicit entry module nothing imports kept its
\* export, and a module that is no entry did not
C8_Witness ==
    /\ pc = "done" /\ options.treeshake
    /\ \E m \in Range(implicitEntryModules) :
           /\ m \notin files.preserveSignatureFalse
           /\ \A n \in Modules : m \notin files.imports[n]
           /\ ExportsOf(m) # {} /\ ExportsOf(m) \subseteq included
    /\ \E n \in Range(modules) : ExportsOf(n) \cap included = {}

\* the dependants of the implicit entry modules that are neither an entry
\* point nor included
NotIncludedDependants ==
    {d \in Modules :
        /\ \E c \in options.implicitChunks :
               c.id \in Range(implicitEntryModules) /\ d \in c.after
        /\ d \notin Range(options.input)
        /\ StmtsOf(d) \cap included = {}}

\* C9: the phase is GENERATE only if every dependant of every implicit
\* entry module is an entry point or included; if one is neither once
\* inclusion has ended, the build has failed with the implicit-dependant
\* error and the phase is still ANALYSE, and the error is raised in no
\* other case.
C9_ImplicitDependantsChecked ==
    /\ phase = GENERATE => NotIncludedDependants = {}
    /\ (pc \in {"done", "failed"} /\ phase # LOAD_AND_PARSE /\ NotIncludedDependants # {}) =>
           /\ pc = "failed" /\ phase = ANALYSE
           /\ error = "IMPLICIT_DEPENDANT_NOT_INCLUDED"
    /\ error = "IMPLICIT_DEPENDANT_NOT_INCLUDED" =>
           NotIncludedDependants # {} /\ phase = ANALYSE /\ pc = "failed"

\* a dependant that is in the execution order but has nothing included
\* made the build fail after the fixed point
C9_Witness ==
    /\ pc = "failed" /\ phase = ANALYSE
    /\ error = "IMPLICIT_DEPENDANT_NOT_INCLUDED"
    /\ options.treeshake
    /\ NotIncludedDependants \cap Range(modules) # {}

\* the loaded modules have no static import cycle
Acyclic ==
    \A m \in TableIds(modulesById) \cap Modules :
        m \notin ReachFrom(StaticImports(m), StaticImports(m))

\* C10: for a graph without static import cycles this.modules is a
\* topological order: every module occurs once, and every module a member
\* imports statically is a member that occurs earlier.
C10_TopologicalOrder ==
    (AfterOrdering /\ Acyclic) =>
        /\ Cardinality(Range(modules)) = Len(modules)
        /\ \A a \in Range(modules) : \A b \in StaticImports(a) :
               /\ b \in Range(modules)
               /\ IndexOf(modules, b) < IndexOf(modules, a)

\* two entries, three ordered modules, a module imported along two paths,
\* and an order that differs from the order of loading
C10_Witness ==
    /\ pc = "done" /\ Acyclic
    /\ Len(entryModules) = 2 /\ Len(modules) = 3
    /\ \E a, b, c \in Range(modules) :
           /\ a # b /\ c \in StaticImports(a) /\ c \in StaticImports(b)
           /\ b \in StaticImports(a)
    /\ modules # SelectIn(TableKeys(modulesById), Modules)

\* the modules the entry modules reach along static imports
ReachableModules == UNION {StaticReach(e) : e \in Range(entryModules)}

\* the static import cycles among these modules, each as the sequence of
\* its members from one of them on
CycleSeqs ==
    {c \in UNION {[1..n -> ReachableModules] : n \in 2..NumModules} :
        /\ \A i, j \in DOMAIN c : c[i] = c[j] => i = j
        /\ \A i \in DOMAIN c : c[(i % Len(c)) + 1] \in StaticImports(c[i])}

\* a reported path is a cycle of the graph: it returns to its first module,
\* follows static imports and passes no module twice
IsCyclePath(p) ==
    /\ Len(p) >= 3 /\ p[1] = p[Len(p)]
    /\ \A i \in 1..(Len(p) - 1) : p[i + 1] \in StaticImports(p[i])
    /\ \A i, j \in 1..(Len(p) - 1) : p[i] = p[j] => i = j

Occurrences(s, x) == Cardinality({i \in DOMAIN s : s[i] = x})

\* C11 as stated: whenever the graph holds a cycle, every module of the
\* cycle is in the execution order exactly once and a reported cycle has
\* exactly the modules of that cycle as its members.
C11_EveryCycleReported ==
    pc = "linked" =>
        \A c \in CycleSeqs :
            /\ \A m \in Range(c) : Occurrences(modules, m) = 1
            /\ \E i \in DOMAIN cyclePaths : Range(cyclePaths[i]) = Range(c)

\* C11, amended: the analysis ends, every module of every cycle is in the
\* execution order exactly once, every reported path is a cycle of the
\* graph, and every cycle contains the import that closes a reported path
\* (so a graph with a cycle has at least one reported); a cycle that
\* shares modules with a reported one need not be reported itself.
C11_CyclesReportedByBackEdge ==
    pc = "linked" =>
        /\ \A m \in ReachableModules : Occurrences(modules, m) = 1
        /\ \A i \in DOMAIN cyclePaths : IsCyclePath(cyclePaths[i])
        /\ \A c \in CycleSeqs :
               \E i \in DOMAIN cyclePaths : \E k \in DOMAIN c :
                   LET p == cyclePaths[i]
                   IN  /\ p[Len(p) - 1] = c[k]
                       /\ p[Len(p)] = c[(k % Len(c)) + 1]

\* the graph holds two cycles that share modules, one is reported, and no
\* reported path has exactly the members of the other
C11_Witness ==
    /\ pc = "linked"
    /\ Len(cyclePaths) >= 1
    /\ \E c, d \in CycleSeqs :
           /\ Range(c) # Range(d) /\ Range(c) \cap Range(d) # {}
           /\ \E i \in DOMAIN cyclePaths : Range(cyclePaths[i]) = Range(c)
           /\ \A i \in DOMAIN cyclePaths : Range(cyclePaths[i]) # Range(d)

\* the next synchronous stage of build() can run: beyond the position of
\* build(), only a tree-shaking pass has a condition of its own
BuildStepEnabled ==
    pc \in {"linked", "marking", "marked"}
        /\ ((pc = "marking" /\ options.treeshake) => treeshakingPass < MaxPasses)

\* C12: the warnings sent to onwarn are exactly the cycle paths of the
\* analysis, one warning each and in their order; a build that reported a
\* cycle is never stopped for it: its next stage can always run, and if it
\* fails it is for a dependant of an implicit chunk; for an entry 1 that
\* imports 2 which imports 1 there is one warning and the order holds 1
\* and 2 once each.
C12_CyclesOnlyWarn ==
    AfterOrdering =>
        /\ cyclePaths = AnalyseModuleExecution(entryModules).cyclePaths
        /\ cyclePaths # <<>> =>
               /\ pc \in {"linked", "marking", "marked"} => BuildStepEnabled
               /\ pc = "failed" => error = "IMPLICIT_DEPENDANT_NOT_INCLUDED"
        /\ (entryModules = <<1>> /\ files.imports[1] = {2} /\ files.imports[2] = {1}) =>
               /\ Len(cyclePaths) = 1 /\ Range(cyclePaths[1]) = {1, 2}
               /\ Occurrences(modules, 1) = 1 /\ Occurrences(modules, 2) = 1

\* a build that sent two warnings reached GENERATE
C12_Witness ==
    /\ pc = "done" /\ phase = GENERATE
    /\ Len(cyclePaths) = 2 /\ cyclePaths[1] # cyclePaths[2]
    /\ included # {}

\* the chunks of a list that generateChunks created itself
NonFacadeChunks(cs) == SelectSeq(cs, LAMBDA c : c.facadeModule = <<>>)

\* the modules of a list of chunks, and whether no module is in two of them
ChunkModules(cs) == UNION {Range(cs[i].modules) : i \in DOMAIN cs}
ChunksDisjoint(cs) ==
    /\ \A i \in DOMAIN cs : Cardinality(Range(cs[i].modules)) = Len(cs[i].modules)
    /\ \A i, j \in DOMAIN cs :
           i # j => Range(cs[i].modules) \cap Range(cs[j].modules) = {}
IncludedModules == {m \in Modules : IsIncluded(m)}

\* C13 as stated: in preserve-modules mode and in automatic chunking mode
\* the non-facade chunks generateChunks creates after a completed build
\* are pairwise disjoint and their modules are exactly the included
\* modules.
C13_ChunksAreTheIncludedModules ==
    [][(phase = GENERATE /\ ~options.inlineDynamicImports) =>
           /\ ChunksDisjoint(NonFacadeChunks(chunks'))
           /\ ChunkModules(NonFacadeChunks(chunks')) = IncludedModules]_vars

\* C13, amended: in both modes the non-facade chunks are pairwise disjoint
\* and every included module is in one of them; in preserve-modules mode a
\* chunk module that is not included is an entry point or the target of an
\* included dynamic importer.
C13_ChunksCoverIncluded ==
    [][(phase = GENERATE /\ ~options.inlineDynamicImports) =>
           /\ ChunksDisjoint(NonFacadeChunks(chunks'))
           /\ IncludedModules \subseteq ChunkModules(NonFacadeChunks(chunks'))
           /\ options.preserveModules =>
                  \A m \in ChunkModules(NonFacadeChunks(chunks')) \ IncludedModules :
                      IsEntryPoint(m) \/ IncludedDynamicImporters(m) # {}]_vars

\* preserve-modules mode: an entry module with nothing included has a
\* non-facade chunk of its own beside that of an included module
C13_Witness ==
    /\ pc = "done" /\ options.preserveModules
    /\ IncludedModules # {}
    /\ \E i, j \in DOMAIN NonFacadeChunks(chunks) :
           LET cs == NonFacadeChunks(chunks)
           IN  /\ cs[i].modules # <<>> /\ cs[j].modules # <<>>
               /\ Range(cs[i].modules) \cap IncludedModules = {}
               /\ Range(cs[i].modules) \subseteq Range(entryModules)
               /\ Range(cs[j].modules) \subseteq IncludedModules

\* automatic chunking is the mode with neither preserveModules nor
\* inlineDynamicImports
AutomaticChunking == ~options.preserveModules /\ ~options.inlineDynamicImports

\* C14: in automatic chunking, every loaded module that has a manual chunk
\* alias is in exactly one chunk, the chunk that carries its alias, and so
\* in no chunk computed from the reachability signatures, also when two
\* entries reach it.
C14_ManualChunksTakePrecedence ==
    [][(phase = GENERATE /\ AutomaticChunking) =>
           \A m \in Modules :
               (manualChunkAliasByModule[m] # NoAlias /\ TableHas(modulesById, m)) =>
                   /\ \E i \in DOMAIN chunks' : m \in Range(chunks'[i].modules)
                   /\ \A i \in DOMAIN chunks' :
                          m \in Range(chunks'[i].modules) =>
                              chunks'[i].alias = manualChunkAliasByModule[m]]_vars

\* a module two entries import has a manual chunk alias and sits in the
\* chunk of that alias, beside the automatic chunks of the two entries
C14_Witness ==
    /\ pc = "done" /\ AutomaticChunking
    /\ Len(entryModules) = 2
    /\ \E m \in Modules \ Range(entryModules) :
           /\ manualChunkAliasByModule[m] = "a"
           /\ \A e \in Range(entryModules) : m \in StaticImports(e)
           /\ \E i \in DOMAIN chunks :
                  chunks[i].alias = "a" /\ m \in Range(chunks[i].modules)
           /\ \A e \in Range(entryModules) : \E i \in DOMAIN chunks :
                  chunks[i].alias = NoAlias /\ chunks[i].modules = <<e>>

\* the entry modules that reach a module along static imports
EntryReach(m) == {e \in Range(entryModules) : m \in StaticReach(e)}

\* a module without alias that the two entry modules import and that is
\* included
SharedByTwoEntries(s) ==
    /\ Len(entryModules) = 2
    /\ manualChunkAliasByModule[s] = NoAlias
    /\ \A e \in Range(entryModules) : s \in StaticImports(e)

\* C15 as stated: in automatic chunking, two modules of one chunk without
\* alias are reached by exactly the same entry modules; a module without
\* alias that two entries import is in exactly one chunk, and that chunk
\* holds neither entry.
C15_SharedModuleApartFromEntries ==
    [][(phase = GENERATE /\ AutomaticChunking) =>
           /\ \A i \in DOMAIN chunks' :
                  chunks'[i].alias = NoAlias =>
                      \A m, n \in Range(chunks'[i].modules) :
                          EntryReach(m) = EntryReach(n)
           /\ \A s \in IncludedModules \ Range(entryModules) :
                  SharedByTwoEntries(s) =>
                      /\ Cardinality({i \in DOMAIN chunks' :
                                          s \in Range(chunks'[i].modules)}) = 1
                      /\ \A i \in DOMAIN chunks' :
                             s \in Range(chunks'[i].modules) =>
                                 Range(chunks'[i].modules) \cap Range(entryModules) = {}]_vars

\* C15, amended: in automatic chunking, two modules of one chunk without
\* alias are reached by exactly the same entry modules; a module without
\* alias that two entries import is in exactly one chunk; that chunk holds
\* neither entry when neither entry reaches the other, and it holds an
\* included entry without alias exactly when the other entry reaches that
\* entry.
C15_ChunksBySignature ==
    [][(phase = GENERATE /\ AutomaticChunking) =>
           /\ \A i \in DOMAIN chunks' :
                  chunks'[i].alias = NoAlias =>
                      \A m, n \in Range(chunks'[i].modules) :
                          EntryReach(m) = EntryReach(n)
           /\ \A s \in IncludedModules \ Range(entryModules) :
                  SharedByTwoEntries(s) =>
                      /\ Cardinality({i \in DOMAIN chunks' :
                                          s \in Range(chunks'[i].modules)}) = 1
                      /\ \A i \in DOMAIN chunks' :
                             s \in Range(chunks'[i].modules) =>
                                 \A e \in Range(entryModules) :
                                     (/\ e \in IncludedModules
                                      /\ manualChunkAliasByModule[e] = NoAlias) =>
                                         (e \in Range(chunks'[i].modules)
                                              <=> EntryReach(e) = Range(entryModules))]_vars

\* two entries import a third module and nothing else: three chunks, one
\* for each entry and one for the shared module
C15_Witness ==
    /\ pc = "done" /\ AutomaticChunking
    /\ entryModules = <<1, 2>>
    /\ \E s \in Modules \ {1, 2} :
           /\ files.imports[1] = {s} /\ files.imports[2] = {s}
           /\ manualChunkAliasByModule[s] = NoAlias
           /\ Len(chunks) = 3
           /\ \E i \in DOMAIN chunks : chunks[i].modules = <<s>>
           /\ \E i \in DOMAIN chunks : chunks[i].modules = <<1>>
           /\ \E i \in DOMAIN chunks : chunks[i].modules = <<2>>

\* the aliases whose manual chunk list names a module
ListAliases(m) == {a \in Aliases : m \in options.manualChunks.lists[a]}

\* C16: a module never has two aliases. Assigning a module that has an
\* alias to another alias raises the error, which names the module and both
\* aliases, and leaves the mapping as it was; assigning it to the alias it
\* has, or assigning a module without alias, raises nothing and changes at
\* most that module's entry. A build whose lists name a module twice
\* fails with this error in LOAD_AND_PARSE and the module keeps its first
\* alias; a build that got past the assignment has no such module.
C16_OneAliasPerModule ==
    /\ \A m \in Modules, a \in Aliases :
           LET st == [map |-> manualChunkAliasByEntry, err |-> "none", info |-> <<>>]
               r == AddModuleToManualChunk(st, a, m)
           IN  IF st.map[m] \notin {NoAlias, a}
               THEN /\ r.err = "CANNOT_ASSIGN_MODULE_TO_CHUNK"
                    /\ r.info = <<m, a, st.map[m]>>
                    /\ r.map = st.map
               ELSE /\ r.err = "none" /\ r.info = <<>>
                    /\ r.map = [st.map EXCEPT ![m] = a]
                    /\ st.map[m] = a => r = st
    /\ error = "CANNOT_ASSIGN_MODULE_TO_CHUNK" =>
           /\ pc = "failed" /\ phase = LOAD_AND_PARSE
           /\ Len(errorInfo) = 3 /\ errorInfo[2] # errorInfo[3]
           /\ {errorInfo[2], errorInfo[3]} \subseteq ListAliases(errorInfo[1])
           /\ manualChunkAliasByEntry[errorInfo[1]] = errorInfo[3]
    /\ (pc \notin {"idle", "loading"} /\ error # "CANNOT_ASSIGN_MODULE_TO_CHUNK"
           /\ options.manualChunks.kind = "object") =>
           \A m \in Modules :
               /\ Cardinality(ListAliases(m)) <= 1
               /\ \A a \in ListAliases(m) : manualChunkAliasByEntry[m] = a

\* two lists name the same module: the build failed, the error names the
\* module with the second and the first alias, and the module still has
\* the first
C16_Witness ==
    /\ pc = "failed" /\ error = "CANNOT_ASSIGN_MODULE_TO_CHUNK"
    /\ errorInfo = <<NumModules, "b", "a">>
    /\ manualChunkAliasByEntry[NumModules] = "a"
    /\ Len(modulesById) >= 2

\* C17: a build without entry modules fails in generateModuleGraph with
\* the no-input error (or, before it, with the manual chunk error): the
\* phase stays LOAD_AND_PARSE, this.modules and this.externalModules stay
\* empty also when manual chunk lists have loaded modules, and nothing is
\* ordered, reported or included. The error is raised only for a build
\* without entry modules.
C17_NoEntryModulesIsFatal ==
    /\ (options.input = <<>> /\ pc \notin {"idle", "loading"}) =>
           /\ pc = "failed" /\ phase = LOAD_AND_PARSE
           /\ error \in {"NO_INPUT", "CANNOT_ASSIGN_MODULE_TO_CHUNK"}
           /\ modules = <<>> /\ externalModules = <<>> /\ cyclePaths = <<>>
           /\ isExecuted = {} /\ included = {} /\ treeshakingPass = 1
    /\ error = "NO_INPUT" => options.input = <<>> /\ entryModules = <<>>

\* the manual chunk lists loaded modules and an external module, and the
\* build failed for want of an entry module
C17_Witness ==
    /\ pc = "failed" /\ error = "NO_INPUT"
    /\ phase = LOAD_AND_PARSE
    /\ TableIds(modulesById) \cap Modules # {}
    /\ TableIds(modulesById) \cap Externals # {}
    /\ modules = <<>>

\* C18: over builds each seeded with the snapshot of the one before, the
\* counter of an entry of the plugin cache is the number of Graphs
\* constructed since the entry was last accessed: a construction adds
\* exactly one to the counter of every seeded entry and keeps the keys. A
\* getCache call returns the entries whose counter is below
\* experimentalCacheExpiry with their counters, drops every entry that was
\* not accessed for that many constructions, and returns exactly the
\* groups that have an entry left.
C18_CacheExpiry ==
    /\ [](\A e \in pluginCache.keys : pluginCache.ctr[e] = buildsSinceAccess[e])
    /\ [][/\ (cacheSnapshot'.taken /\ cacheSnapshot' # cacheSnapshot) =>
               LET snap == cacheSnapshot'.plugins
               IN  /\ \A e \in CacheEntries :
                          e \in snap.keys <=>
                              /\ e \in pluginCache.keys
                              /\ buildsSinceAccess[e] < options.experimentalCacheExpiry
                   /\ \A e \in snap.keys : snap.ctr[e] = pluginCache.ctr[e]
                   /\ snap.groups = {e[1] : e \in snap.keys}
                   /\ pluginCache' = snap
          /\ (cacheSnapshot.taken /\ pc' = "idle") =>
               /\ pluginCache'.keys = cacheSnapshot.plugins.keys
               /\ pluginCache'.groups = cacheSnapshot.plugins.groups
               /\ \A e \in cacheSnapshot.plugins.keys :
                      pluginCache'.ctr[e] = cacheSnapshot.plugins.ctr[e] + 1]_vars

\* a snapshot that kept a seeded entry of one plugin and dropped the only
\* entry of another, which was not accessed for experimentalCacheExpiry
\* constructions, together with its group
C18_Witness ==
    /\ cacheSnapshot.taken
    /\ <<"p", "x">> \in cacheSnapshot.plugins.keys
    /\ cacheSnapshot.plugins.ctr[<<"p", "x">>] >= 1
    /\ cacheSnapshot.plugins.groups = {"p"}
    /\ buildsSinceAccess[<<"q", "x">>] >= options.experimentalCacheExpiry
    /\ options.experimentalCacheExpiry >= 2

\* C19: after a completed build the modules list that getCache returns
\* holds every internal module of modulesById exactly once, the modules
\* that only a manual chunk list loaded included.
C19_SnapshotHoldsEveryLoadedModule ==
    (cacheSnapshot.taken /\ pc = "done") =>
        /\ Range(cacheSnapshot.modules) = TableIds(modulesById) \cap Modules
        /\ Cardinality(Range(cacheSnapshot.modules)) = Len(cacheSnapshot.modules)

IsSortedSeq(s) == \A i, j \in DOMAIN s : i < j => s[i] <= s[j]
SamePushes(s, t) ==
    Len(s) = Len(t) /\ \A x \in Range(s) \cup Range(t) : Occurrences(s, x) = Occurrences(t, x)

\* C20: a getModuleInfo call for an id that is no key of modulesById
\* fails with the module-not-found error and changes neither the table nor
\* a record's arrays. A call for a key returns the importers and the
\* dynamic importers of the record, each once and in ascending order, and
\* they are modules that import the id; for an external module the
\* imported, dynamically imported and implicitly-loaded lists are empty,
\* isEntry is false and isExternal is true, and for a module isExternal is
\* false.
C20_ModuleInfo ==
    [][(moduleInfo' # moduleInfo /\ moduleInfo'.called) =>
          LET r == moduleInfo'
          IN  /\ modulesById' = modulesById
              /\ IF ~TableHas(modulesById, r.id)
                 THEN /\ r.err = "UNABLE_TO_FIND_MODULE"
                      /\ importers' = importers
                      /\ dynamicImporters' = dynamicImporters
                 ELSE /\ r.err = "none"
                      /\ IsSortedSeq(r.importers) /\ IsSortedSeq(r.dynamicImporters)
                      /\ SamePushes(r.importers, importers[r.id])
                      /\ SamePushes(r.dynamicImporters, dynamicImporters[r.id])
                      /\ Cardinality(Range(r.importers)) = Len(r.importers)
                      /\ \A a \in Range(r.importers) : r.id \in files.imports[a]
                      /\ \A a \in Range(r.dynamicImporters) :
                             r.id \in files.dynamicImports[a]
                      /\ r.isExternal = (r.id \in Externals)
                      /\ r.id \in Externals =>
                             /\ r.importedIds = <<>>
                             /\ r.dynamicallyImportedIds = <<>>
                             /\ r.implicitlyLoadedAfterOneOf = <<>>
                             /\ r.implicitlyLoadedBefore = <<>>
                             /\ ~r.isEntry]_vars

\* the second entry was loaded and pushed as an importer of the third
\* module before the first, and the information on the third module names
\* the first before the second
C20_Witness ==
    /\ moduleInfo.called /\ moduleInfo.err = "none"
    /\ moduleInfo.id = 3
    /\ moduleInfo.importers = <<1, 2>>
    /\ moduleInfo.dynamicImporters = <<1, 2>>
    /\ TableKeys(modulesById)[1] = 2

\* the aliases whose list names the module and loaded
LoadedListAliases(m) ==
    {a \in Aliases \ failedTasks : m \in options.manualChunks.lists[a]}

\* C21: when the load of a manual chunk list is rejected and the entry
\* load is not, the build does not fail with the load error; once the
\* module graph is generated no module has the alias of the rejected list,
\* the modules that list loaded included, and every other alias is given
\* the modules of its list: a module has an alias exactly when a list that
\* loaded names it, and the assignment error is raised exactly when two
\* lists that loaded name the same module.
C21_FailedListIsSwallowed ==
    (/\ options.manualChunks.kind = "object"
     /\ "entry" \notin failedTasks
     /\ pc \notin {"idle", "loading"}) =>
        /\ error # "LOAD_FAILED"
        /\ \A a \in failedTasks, m \in Modules : manualChunkAliasByEntry[m] # a
        /\ IF \E m \in Modules : Cardinality(LoadedListAliases(m)) > 1
           THEN error = "CANNOT_ASSIGN_MODULE_TO_CHUNK" /\ pc = "failed"
           ELSE /\ error # "CANNOT_ASSIGN_MODULE_TO_CHUNK"
                /\ \A m \in Modules :
                       IF LoadedListAliases(m) = {}
                       THEN manualChunkAliasByEntry[m] = NoAlias
                       ELSE manualChunkAliasByEntry[m] \in LoadedListAliases(m)

\* the load of list a was rejected after it had loaded the second module,
\* the build completed, and the module has the alias of list b
C21_Witness ==
    /\ pc = "done" /\ error = "none"
    /\ failedTasks = {"a"}
    /\ 2 \in options.manualChunks.lists["a"]
    /\ TableHas(modulesById, 2) /\ TableGet(modulesById, 2).by = "a"
    /\ manualChunkAliasByEntry[2] = "b"

\* the invocations of the callback for an id
CallsFor(id) == {i \in DOMAIN manualChunkCalls : manualChunkCalls[i].id = id}

\* C22: the manualChunks callback is not invoked while the entry modules
\* load, nor when manualChunks is no callback. Once the module graph is
\* generated it has been invoked exactly once for every Module of
\* modulesById and for no external module, nothing is left to load, and
\* the ids getModuleIds yielded to each invocation are the keys of the
\* table from then on.
C22_CallbackSeesFinalModuleSet ==
    /\ (options.manualChunks.kind # "function" \/ pc \in {"idle", "loading"}) =>
           manualChunkCalls = <<>>
    /\ (options.manualChunks.kind = "function" /\ pc \notin {"idle", "loading"}
           /\ error # "LOAD_FAILED") =>
           /\ \A id \in TableIds(modulesById) :
                  Cardinality(CallsFor(id)) = IF id \in Modules THEN 1 ELSE 0
           /\ \A i \in DOMAIN manualChunkCalls :
                  /\ manualChunkCalls[i].id \in TableIds(modulesById) \cap Modules
                  /\ manualChunkCalls[i].moduleIds = TableKeys(modulesById)
           /\ pending["entry"] = {}
           /\ \A m \in TableIds(modulesById) \cap Modules :
                  files.imports[m] \cup files.dynamicImports[m] \subseteq TableIds(modulesById)

\* a completed build whose table holds three modules and the external
\* module: the callback was invoked three times and gave the third module
\* an alias
C22_Witness ==
    /\ pc = "done"
    /\ options.manualChunks.kind = "function"
    /\ Len(manualChunkCalls) = 3
    /\ externalModules # <<>>
    /\ manualChunkAliasByModule[3] = "a"
    /\ Len(entryModules) = 2

UnusedModules ==
    {m \in TableIds(modulesById) \cap Modules :
        /\ m \notin files.moduleSideEffects
        /\ StmtsOf(m) \cap files.hasEffects = {}
        /\ ~IsIncluded(m)}

\* those of them that are neither entry nor implicit entry modules and have
\* no included dynamic importer
UnusedInnerModules ==
    {m \in UnusedModules :
        /\ m \notin Range(entryModules) \cup Range(implicitEntryModules)
        /\ IncludedDynamicImporters(m) = {}}

\* C24 as stated: with tree-shaking, after the inclusion fixed point every
\* module without side effects and without an included statement has
\* isExecuted false and is in no chunk, in each of the three modes.
C24_UnusedModulesAreAbsent ==
    [][(phase = GENERATE /\ options.treeshake) =>
           \A m \in UnusedModules :
               m \notin isExecuted /\ m \notin ChunkModules(chunks')]_vars

\* C24: with tree-shaking, after the inclusion fixed point every module
\* without side effects and without an included statement that is neither
\* an entry nor an implicit entry module and has no included dynamic
\* importer has isExecuted false; generateChunks puts it in no chunk in
\* preserve-modules mode and, unless it has a manual chunk alias, in
\* automatic mode, while with inlineDynamicImports it is in the one chunk
\* exactly when it is in this.modules.
C24_UnusedInnerModulesAreAbsent ==
    [][(phase = GENERATE /\ options.treeshake) =>
           \A m \in UnusedInnerModules :
               /\ m \notin isExecuted
               /\ options.preserveModules => m \notin ChunkModules(chunks')
               /\ (AutomaticChunking /\ manualChunkAliasByModule[m] = NoAlias) =>
                      m \notin ChunkModules(chunks')
               /\ (options.inlineDynamicImports /\ chunks' # chunks) =>
                      (m \in ChunkModules(chunks') <=> m \in Range(modules))]_vars

\* preserve-modules mode after a completed build: an imported module
\* without side effects has nothing included, is not executed and has no
\* chunk, while the entry that imports it has one
C24_Witness ==
    /\ pc = "done" /\ options.treeshake /\ options.preserveModules
    /\ chunks # <<>>
    /\ \E m \in UnusedInnerModules :
           /\ m \in Range(modules)
           /\ m \notin isExecuted
           /\ m \notin ChunkModules(chunks)
           /\ \E e \in Range(entryModules) :
                  m \in StaticImports(e) /\ e \in ChunkModules(chunks)

\* the modules of this.modules that are included, are an entry point or
\* have an included dynamic importer
ChunkWorthy ==
    {m \in Range(modules) :
        IsIncluded(m) \/ IsEntryPoint(m) \/ IncludedDynamicImporters(m) # {}}

\* C25: with preserveModules a generateChunks call creates exactly one
\* chunk for every module of this.modules that is included, is an entry
\* point or has an included dynamic importer, and none for any other
\* module: the module list and the entry module list of each non-facade
\* chunk are one and the same single module, no chunk has an alias, the
\* non-facade chunks follow the order of this.modules, and a facade holds
\* no module.
C25_PreserveModulesOneChunkEach ==
    [][(options.preserveModules /\ chunks' # chunks) =>
           LET cs == NonFacadeChunks(chunks')
           IN  /\ \A i \in DOMAIN cs :
                      /\ Len(cs[i].modules) = 1
                      /\ cs[i].entryModules = cs[i].modules
                      /\ cs[i].alias = NoAlias
                      /\ cs[i].modules[1] \in ChunkWorthy
               /\ \A m \in ChunkWorthy :
                      Cardinality({i \in DOMAIN chunks' : chunks'[i].modules = <<m>>}) = 1
               /\ \A i, j \in DOMAIN cs :
                      i < j => IndexOf(modules, cs[i].modules[1])
                                   < IndexOf(modules, cs[j].modules[1])
               /\ \A i \in DOMAIN chunks' :
                      chunks'[i].facadeModule # <<>> => chunks'[i].modules = <<>>]_vars

\* a completed build with preserveModules: a module of which nothing is
\* included and that is no entry point has a chunk because an included
\* module imports it dynamically, and another ordered module has none
C25_Witness ==
    /\ pc = "done" /\ options.preserveModules
    /\ \E m \in Range(modules) :
           /\ ~IsIncluded(m) /\ ~IsEntryPoint(m)
           /\ IncludedDynamicImporters(m) # {}
           /\ \E i \in DOMAIN chunks :
                  chunks[i].modules = <<m>> /\ chunks[i].entryModules = <<m>>
    /\ Range(modules) \ ChunkModules(chunks) # {}
    /\ Len(chunks) = 2

\* the manualChunks value normalizeOutputOptions works with: that of the
\* output config or, failing that, that of the input options
ConfiguredManualChunks ==
    IF HasManualChunks(outputConfig.manualChunks) THEN outputConfig.manualChunks
    ELSE options.manualChunks
Unsupported == options.inlineDynamicImports \/ options.preserveModules

\* C26 as stated: a call with a configured manualChunks value and
\* inlineDynamicImports or preserveModules fails with INVALID_OPTION, and
\* every other call returns the configured manualChunks, or an empty
\* object when none is configured.
C26_ManualChunksRejectedOrReturned ==
    outputOptions.called =>
        IF HasManualChunks(ConfiguredManualChunks) /\ Unsupported
        THEN outputOptions.code = "INVALID_OPTION"
        ELSE /\ outputOptions.code = "none"
             /\ outputOptions.options.manualChunks =
                    IF HasManualChunks(ConfiguredManualChunks)
                    THEN ConfiguredManualChunks ELSE EmptyObject

\* C26: normalizeOutputOptions returns no options that combine manual
\* chunks with inlineDynamicImports or preserveModules. A call with a
\* configured manualChunks value and one of the two fails, with
\* INVALID_OPTION unless the check of format or exports fails first with
\* its own error; every other call returns the configured manualChunks,
\* or an empty object when none is configured, unless the check of file,
\* dir, format or exports fails.
C26_ManualChunksNeverCombined ==
    outputOptions.called =>
        /\ (outputOptions.code = "none" /\ Unsupported) =>
               /\ outputOptions.options.manualChunks = EmptyObject
               /\ ~HasManualChunks(ConfiguredManualChunks)
        /\ IF HasManualChunks(ConfiguredManualChunks) /\ Unsupported
           THEN /\ outputOptions.code # "none"
                /\ outputOptions.code # "INVALID_OPTION" =>
                       outputOptions.option \in {"format", "exports"}
                /\ outputOptions.option = "manualChunks" <=>
                       /\ ~(outputConfig.file # Undefined /\ options.preserveModules)
                       /\ ~(outputConfig.file # Undefined /\ outputConfig.dir # Undefined)
                       /\ outputConfig.format # "bogus"
                       /\ outputConfig.exports # "bogus"
           ELSE /\ outputOptions.option # "manualChunks"
                /\ outputOptions.code = "none" =>
                       outputOptions.options.manualChunks =
                           IF HasManualChunks(ConfiguredManualChunks)
                           THEN ConfiguredManualChunks ELSE EmptyObject
                /\ outputOptions.code # "none" =>
                       outputOptions.option \in {"file", "dir", "format", "exports"}

\* the input options carry manual chunk lists and preserveModules, the
\* output config none and no other flaw: the call failed on manualChunks
\* with INVALID_OPTION
C26_Witness ==
    /\ outputOptions.called
    /\ outputOptions.code = "INVALID_OPTION" /\ outputOptions.option = "manualChunks"
    /\ ~HasManualChunks(outputConfig.manualChunks)
    /\ options.manualChunks.kind = "object"
    /\ options.preserveModules /\ ~options.inlineDynamicImports

====
